---- MODULE Spec2Model ----
(***************************************************************************)
(* The eth protocol manager of go-ptc (eth/handler.go): peer life cycle,   *)
(* shutdown, the DAO fork challenge and the GetBlockHeaders query.         *)
(***************************************************************************)
EXTENDS Integers, Sequences, FiniteSets, TLC

(* ------------------------------ bounds -------------------------------- *)
\* Number of remote connections (one Run callback each).
NumPeers == 2
\* pm.maxPeers as handed to Start.
MaxPeersCfg == 1
\* Block number of the configured hard fork (chainconfig.DAOForkBlock).
DAOForkNum == 1
\* Highest number the local canonical chain may have at start-up.
MaxHead == 1
\* Largest total difficulty a remote advertises in its Status.
MaxTd == 2
\* Width in bits of the model's uint64 and int (the code's is 64).
UintBits == 4
\* Highest head number of the chains header queries are answered from.
MaxQueryHead == 4
\* Longest side branch of those chains.
MaxSide == 2
\* downloader.MaxHeaderFetch (192 in the code), scaled to the model's chains.
MaxHeaderFetch == 3
\* downloader.MaxBlockFetch, MaxStateFetch and MaxReceiptFetch, scaled.
MaxBlockFetch == 2
MaxStateFetch == 2
MaxReceiptFetch == 1
\* Number of distinct hashes a data request may name, and its longest list.
NumDataHashes == 2
MaxReqLen == 3
\* Number of distinct transactions and the longest batch of them.
NumTxs == 2
MaxTxBatch == 2
\* Number of connections of the node whose broadcasts are followed.
NumBcastPeers == 4
\* Longest manifest path in characters, number of distinct contents an
\* entry may point to, and number of entries a writer adds or removes.
MaxPathChars == 2
NumEntryData == 1
MaxTrieOps == 3
\* Number of walks or lookups made on a manifest loaded for reading.
MaxReads == 2
\* Number of transfers submitted to a USB device handle.
MaxTransfers == 3
\* Longest path, in bytes, of the manifests checked operation by operation.
MaxPathBytes == 3
\* Number of entries added to a manifest before it is looked at.
MaxPriorAdds == 2

Peers == 1..NumPeers
\* Hashes a data request may name; 0 stands for a list element that does not
\* decode as a hash.
DataHashes == 1..NumDataHashes
\* A database that holds nothing under any of them.
EmptyStore == [h \in DataHashes |-> [size |-> 0, root |-> "none"]]
Nil == "nil"
\* Who calls removePeer: the call deferred by handle, the fork-check timer,
\* and the drop callback of the downloader and the fetcher.
Callers == {"defer", "timer", "drop"}
\* chainconfig.DAOForkBlock == nil: no fork block configured.
NoFork == 0 - 1
NoOut == [op |-> "none"]
\* A return of handle that no message caused.
NoMsg == [code |-> "none", headers |-> <<>>]

(* --------------------------- manifest values -------------------------- *)
\* Bytes of paths: two ASCII letters, the lead byte and two continuation
\* bytes of the two-byte UTF-8 characters U+00E8 and U+00E9, and the bytes of
\* the replacement character U+FFFD taken as one unit.
Bytes == {"a", "b", "C3", "A8", "A9", "FFFD"}
\* Index into ptcifestTrie.entries: the first byte of the path, or 256.
Slots == Bytes \cup {"256"}
\* The slots in the order of the array.
SlotOrder == <<"a", "b", "A8", "A9", "C3", "FFFD", "256">>
ManifestType == "application/bzz-ptcifest+json"

\* &ptcifestTrie{dpa: dpa}: no entry, hash nil (0).
NilTrie == [hash |-> 0, entries |-> [s \in Slots |-> <<>>]]
\* An empty store and the writer's trie before anything is added; role says
\* whether the trie is held by a ManifestWriter or was loaded for reading.
NewManifest ==
  [trie |-> NilTrie, dpa |-> <<>>, ops |-> 0, role |-> "writer", reads |-> 0]

\* The transfers a client may submit to a device handle.
Transfers == 1..MaxTransfers
\* The null pointer BList::RemoveItem(int32) returns for an empty list.
NullTransfer == 0
\* A USBDeviceHandle as its constructor leaves it (lines 222-239): an empty
\* transfer list, the semaphore created with count 0, the worker thread
\* started and about to call acquire_sem.
NewHandle ==
  [fTransfers |-> <<>>, fTransfersSem |-> 0, worker |-> "acquire",
   fPendingTransfer |-> NullTransfer,
   state |-> [t \in Transfers |-> "new"]]

VARIABLES
  pc,            \* per connection: position of the Run callback / handle
  trusted,       \* per connection: p.Peer.Info().Network.Trusted
  peerTd,        \* per connection: p.td (0 = not set, handshake not completed)
  forkDrop,      \* per connection: p.forkDrop ("nil", "armed", "fired")
  disconnected,  \* per connection: p.Peer.Disconnect has been called
  peers,         \* pm.peers.peers (ids registered in the peer set)
  closed,        \* pm.peers.closed
  dlPeers,       \* ids registered in pm.downloader
  wg,            \* pm.wg counter
  stopPc,        \* position of ProtocolManager.Stop
  txsSub,        \* the new-tx subscription is active
  minedBlockSub, \* the mined-block subscription is active
  noMorePeersSent, \* number of signals delivered on pm.noMorePeers
  quitSync,      \* pm.quitSync is closed
  loops,         \* long-lived loops still running
  daoForkBlock,  \* pm.chainconfig.DAOForkBlock (NoFork or a number)
  chainHead,     \* number of the local chain's current header
  side,          \* a side branch of the local chain: [at, len]
  query,         \* the decoded getBlockHeadersData of a GetBlockHeaders message
  replied,       \* the query has been answered
  reply,         \* the headers handed to p.SendBlockHeaders
  out,           \* what the last step did to the outside (return value, calls)
  store,         \* the chain database: bodies, trie nodes, receipts per hash
  knownBlocks,   \* per connection: p.knownBlocks
  knownTxs,      \* per connection: p.knownTxs
  acceptTxs,     \* pm.acceptTxs
  fastSync,      \* pm.fastSync
  minedCh,       \* events pending on pm.minedBlockSub.Chan()
  minedPc,       \* minedBroadcastLoop between its two BroadcastBlock calls:
                 \* <<>> or the event's block and whom the first call sent to
  passes,        \* the BroadcastBlock calls minedBroadcastLoop has made
  verifier,      \* pm.udpHandler.verifier is installed
  broadcastInfoCh, \* pm.udpHandler.broadcastInfoCh (capacity 1)
  rmPc,          \* per connection and caller: position of a removePeer call
  manifest,      \* a ManifestWriter's trie, the store behind it, and the
                 \* number of entries added or removed so far
  usb            \* a USBDeviceHandle: its transfer list, the count of its
                 \* semaphore, and where each caller and the worker stand

vars == <<pc, trusted, peerTd, forkDrop, disconnected, peers, closed, dlPeers,
          wg, stopPc, txsSub, minedBlockSub, noMorePeersSent, quitSync, loops,
          daoForkBlock, chainHead, side, query, replied, reply, out, store,
          knownBlocks, knownTxs, acceptTxs, fastSync, minedCh, minedPc,
          passes, verifier, broadcastInfoCh, rmPc, manifest, usb>>

peerVars == <<pc, trusted, peerTd, forkDrop, disconnected, peers, dlPeers, wg>>
stopVars == <<stopPc, txsSub, minedBlockSub, noMorePeersSent, quitSync, closed>>
gossipVars == <<knownBlocks, knownTxs, acceptTxs, fastSync>>
bcastVars == <<minedCh, minedPc, passes>>
udpVars == <<verifier, broadcastInfoCh>>
\* What the peer life cycle and Stop leave alone.
cfgVars  == <<daoForkBlock, chainHead, side, query, replied, reply, store,
              gossipVars, bcastVars, udpVars, rmPc, manifest, usb>>

\* The lists of up to n elements of S a remote may send.
RECURSIVE SeqsUpTo(_, _)
SeqsUpTo(S, n) ==
  IF n = 0 THEN {<<>>}
  ELSE SeqsUpTo(S, n - 1)
       \cup {Append(q, x) : q \in {r \in SeqsUpTo(S, n - 1) : Len(r) = n - 1},
                            x \in S}

(* --------------------------- collaborators ---------------------------- *)
\* Local identity used in the Status exchange.
LocalNetworkId == 1
LocalGenesis == "genesis"

\* What a remote may answer the handshake with: a Status message, or (fault)
\* silence or garbage.
RemoteStatuses ==
  [networkId : {1, 2}, genesis : {"genesis", "other"}, version : {62, 63, 99},
   td : 1..MaxTd, fault : {"none", "DiscReadTimeout", "ErrDecode"}]

\* peer.Handshake: the error of the Status exchange, Nil when it passes.
Handshake(st) ==
  IF st.fault # "none" THEN st.fault
  ELSE IF st.genesis # LocalGenesis THEN "ErrGenesisBlockMismatch"
  ELSE IF st.networkId # LocalNetworkId THEN "ErrNetworkIdMismatch"
  ELSE IF st.version \notin {62, 63} THEN "ErrProtocolVersionMismatch"
  ELSE Nil

\* blockchain.GetHeaderByNumber(n) # nil
HasHeaderByNumber(n) == n <= chainHead
\* blockchain.GetTd of the canonical block n: every block has difficulty 1.
GetTd(n) == n + 1

\* No GetBlockHeaders message is being handled.
NoQuery == [hash |-> 0, number |-> 0, amount |-> 0, skip |-> 0,
            reverse |-> FALSE]

\* peerSet.Len
PeersLen == Cardinality(peers)

\* The syncer loop is at its select: it receives from pm.newPeerCh until it
\* receives from pm.noMorePeers and returns.
SyncerRunning == "syncer" \in loops

(* ---------------------------- initial state --------------------------- *)
\* Which connections the p2p layer flags trusted: none, or the first one.
TrustedChoices == {{}, {1}}

\* After NewProtocolManager and Start(maxPeers): loops running, no peer yet.
InitOthers ==
  /\ pc = [p \in Peers |-> "idle"]
  /\ \E T \in TrustedChoices : trusted = [p \in Peers |-> p \in T]
  /\ peerTd = [p \in Peers |-> 0]
  /\ forkDrop = [p \in Peers |-> "nil"]
  /\ disconnected = [p \in Peers |-> FALSE]
  /\ peers = {}
  /\ closed = FALSE
  /\ dlPeers = {}
  /\ wg = 0
  /\ stopPc = "idle"
  /\ txsSub = TRUE
  /\ minedBlockSub = TRUE
  /\ noMorePeersSent = 0
  /\ quitSync = FALSE
  /\ loops = {"txBroadcastLoop", "minedBroadcastLoop", "syncer"}
  /\ daoForkBlock \in {NoFork, DAOForkNum}
  /\ knownBlocks = [p \in Peers |-> {}]
  /\ knownTxs = [p \in Peers |-> {}]
  /\ acceptTxs = 0
  /\ minedCh = <<>>
  /\ minedPc = <<>>
  /\ passes = <<>>
  /\ verifier = FALSE
  /\ broadcastInfoCh = <<>>
  /\ rmPc = [p \in Peers |-> [c \in Callers |-> "idle"]]

InitFields == InitOthers /\ manifest = NewManifest /\ usb = NewHandle

InitNode == InitFields /\ out = NoOut

\* The node over a local chain without side branch, no header query in hand.
Init ==
  /\ InitNode
  /\ chainHead \in 0..MaxHead
  /\ side = [at |-> 0, len |-> 0]
  /\ store = EmptyStore
  /\ fastSync = 0
  /\ query = NoQuery
  /\ replied = FALSE
  /\ reply = <<>>

(* ------------------------------ removePeer ---------------------------- *)
\* A plausible slip: the downloader keeps the peer.
removePeer_keepsDownloader(id) ==
  IF id \notin peers
  THEN UNCHANGED <<peers, dlPeers, disconnected>>
  ELSE /\ peers' = peers \ {id}
       /\ UNCHANGED dlPeers
       /\ disconnected' = [disconnected EXCEPT ![id] = TRUE]

\* ProtocolManager.removePeer: no-op for an unknown id, else unregister from
\* the downloader and the peer set and disconnect.
removePeer(id) ==
  IF id \notin peers
  THEN UNCHANGED <<peers, dlPeers, disconnected>>
  ELSE /\ peers' = peers \ {id}
       /\ dlPeers' = dlPeers \ {id}
       /\ disconnected' = [disconnected EXCEPT ![id] = TRUE]

\* handle returns err, on message m when handleMsg failed: the deferred calls
\* run (fork timer cleanup, removePeer when it was deferred at line 302,
\* wg.Done of the Run closure).
ReturnOn(p, err, deferredRemove, m) ==
  /\ pc' = [pc EXCEPT ![p] = "gone"]
  /\ forkDrop' = [forkDrop EXCEPT ![p] = "nil"]
  /\ peerTd' = [peerTd EXCEPT ![p] = 0]
  /\ IF deferredRemove THEN removePeer(p)
     ELSE UNCHANGED <<peers, dlPeers, disconnected>>
  /\ wg' = wg - 1
  /\ out' = [op |-> "return", peer |-> p, err |-> err, msg |-> m]
  /\ UNCHANGED <<trusted, stopVars, loops, cfgVars>>

Return(p, err, deferredRemove) == ReturnOn(p, err, deferredRemove, NoMsg)

(* ------------------------- the Run callback --------------------------- *)
\* The p2p layer starts the sub-protocol's Run for a new connection.
Connect(p) ==
  /\ pc[p] = "idle"
  /\ pc' = [pc EXCEPT ![p] = "select"]
  /\ out' = NoOut
  /\ UNCHANGED <<trusted, peerTd, forkDrop, disconnected, peers, dlPeers, wg,
                 stopVars, loops, cfgVars>>

\* select case newPeerCh <- peer: the syncer receives.
RunSendNewPeer(p) ==
  /\ pc[p] = "select"
  /\ SyncerRunning
  /\ pc' = [pc EXCEPT ![p] = "wgAdd"]
  /\ out' = NoOut
  /\ UNCHANGED <<trusted, peerTd, forkDrop, disconnected, peers, dlPeers, wg,
                 stopVars, loops, cfgVars>>

\* select case <-quitSync: return p2p.DiscQuitting.
RunQuit(p) ==
  /\ pc[p] = "select"
  /\ quitSync
  /\ pc' = [pc EXCEPT ![p] = "gone"]
  /\ out' = [op |-> "return", peer |-> p, err |-> "DiscQuitting", msg |-> NoMsg]
  /\ UNCHANGED <<trusted, peerTd, forkDrop, disconnected, peers, dlPeers, wg,
                 stopVars, loops, cfgVars>>

\* wg.Add(1), then handle(peer) is entered.
RunWgAdd(p) ==
  /\ pc[p] = "wgAdd"
  /\ wg' = wg + 1
  /\ pc' = [pc EXCEPT ![p] = "handle"]
  /\ out' = NoOut
  /\ UNCHANGED <<trusted, peerTd, forkDrop, disconnected, peers, dlPeers,
                 stopVars, loops, cfgVars>>

(* ------------------------------- handle ------------------------------- *)
maxPeers == MaxPeersCfg

\* A plausible slip: the capacity test uses > and lets one peer too many in.
AtCapacity_offByOne(p) == PeersLen > maxPeers /\ ~trusted[p]

\* handle, line 274: the capacity test, which a trusted peer is exempt from.
AtCapacity(p) == PeersLen >= maxPeers /\ ~trusted[p]

\* A plausible slip: the error of p.Handshake is logged but not returned.
HandleAdmit_ignoresHandshakeErr(p, st) ==
  /\ pc[p] = "handle"
  /\ IF AtCapacity(p)
     THEN Return(p, "DiscTooManyPeers", FALSE)
     ELSE /\ peerTd' = [peerTd EXCEPT ![p] =
                          IF Handshake(st) = Nil THEN st.td ELSE 0]
          /\ pc' = [pc EXCEPT ![p] = "register"]
          /\ out' = NoOut
          /\ UNCHANGED <<trusted, forkDrop, disconnected, peers, dlPeers, wg,
                         stopVars, loops, cfgVars>>

\* handle, lines 273-293: capacity test, then the Status handshake, which the
\* remote answers with st; p.td and p.head are set only by a handshake that
\* passes.
HandleAdmit(p, st) ==
  /\ pc[p] = "handle"
  /\ IF AtCapacity(p)
     THEN Return(p, "DiscTooManyPeers", FALSE)
     ELSE IF Handshake(st) # Nil
     THEN Return(p, Handshake(st), FALSE)
     ELSE /\ peerTd' = [peerTd EXCEPT ![p] = st.td]
          /\ pc' = [pc EXCEPT ![p] = "register"]
          /\ out' = NoOut
          /\ UNCHANGED <<trusted, forkDrop, disconnected, peers, dlPeers, wg,
                         stopVars, loops, cfgVars>>


\* A plausible slip: Register does not look at the closed flag.
RegisterErr_ignoresClosed(p) ==
  IF p \in peers THEN "errAlreadyRegistered" ELSE Nil

\* peerSet.Register: refused once the set is closed or for a known id.
RegisterErr(p) ==
  IF closed THEN "errClosed"
  ELSE IF p \in peers THEN "errAlreadyRegistered"
  ELSE Nil

\* handle, lines 294-298: register the peer locally.
HandleRegister(p) ==
  /\ pc[p] = "register"
  /\ IF RegisterErr(p) # Nil
     THEN Return(p, RegisterErr(p), FALSE)
     ELSE /\ peers' = peers \cup {p}
          /\ pc' = [pc EXCEPT ![p] = "notify"]
          /\ out' = NoOut
          /\ UNCHANGED <<trusted, peerTd, forkDrop, disconnected, dlPeers, wg,
                         stopVars, loops, cfgVars>>

\* handle, line 300: pm.newPeerCh <- p, an unbuffered send that only the
\* syncer receives; line 302 then defers removePeer.
HandleNotifySyncer(p) ==
  /\ pc[p] = "notify"
  /\ SyncerRunning
  /\ pc' = [pc EXCEPT ![p] = "setup"]
  /\ out' = NoOut
  /\ UNCHANGED <<trusted, peerTd, forkDrop, disconnected, peers, dlPeers, wg,
                 stopVars, loops, cfgVars>>

\* The DAO challenge: RequestHeadersByNumber(daoBlock, 1, 0, false).
ForkRequest(p) ==
  [op |-> "request", peer |-> p, origin |-> daoForkBlock, amount |-> 1,
   skip |-> 0, reverse |-> FALSE]

\* A plausible slip: the challenge is sent but the drop timer is not started.
HandleSetup_noTimer(p) ==
  /\ pc[p] = "setup"
  /\ p \notin dlPeers
  /\ dlPeers' = dlPeers \cup {p}
  /\ pc' = [pc EXCEPT ![p] = "loop"]
  /\ out' = IF daoForkBlock # NoFork THEN ForkRequest(p) ELSE NoOut
  /\ UNCHANGED <<trusted, peerTd, forkDrop, disconnected, peers, wg,
                 stopVars, loops, cfgVars>>

\* handle, lines 304-330: downloader.RegisterPeer, syncTransactions, and when
\* the chain config names a DAO fork block the header challenge and its timer.
\* The request can fail on a broken connection.
HandleSetup(p) ==
  /\ pc[p] = "setup"
  /\ IF p \in dlPeers
     THEN Return(p, "errAlreadyRegistered", TRUE)
     ELSE \/ /\ dlPeers' = dlPeers \cup {p}
             /\ pc' = [pc EXCEPT ![p] = "loop"]
             /\ forkDrop' = [forkDrop EXCEPT ![p] =
                               IF daoForkBlock # NoFork THEN "armed" ELSE "nil"]
             /\ out' = IF daoForkBlock # NoFork THEN ForkRequest(p) ELSE NoOut
             /\ UNCHANGED <<trusted, peerTd, disconnected, peers, wg,
                            stopVars, loops, cfgVars>>
          \/ /\ daoForkBlock # NoFork
             /\ Return(p, "write error", TRUE)

\* The timer started at line 319 expires: pm.removePeer(p.id).
ForkTimeout(p) ==
  /\ forkDrop[p] = "armed"
  /\ forkDrop' = [forkDrop EXCEPT ![p] = "fired"]
  /\ removePeer(p)
  /\ out' = NoOut
  /\ UNCHANGED <<pc, trusted, peerTd, wg, stopVars, loops, cfgVars>>

\* The downloader (or fetcher) drops a misbehaving peer through the
\* removePeer callback handed to it at construction (lines 183, 200).
DropPeer(p) ==
  /\ p \in dlPeers
  /\ removePeer(p)
  /\ out' = NoOut
  /\ UNCHANGED <<pc, trusted, peerTd, forkDrop, wg, stopVars, loops, cfgVars>>


(* ------------------- removePeer, statement by statement --------------- *)
\* removePeer takes no lock of its own: the lookup pm.peers.Peer(id) and the
\* unregistrations are separate critical sections of the peer set and the
\* downloader, so calls from different goroutines interleave between them.

\* What a removePeer call did when it returned: the calls it made, and
\* whether pm.peers.Unregister failed (which is only logged).
Removed(p, c, calls, unregisterErr) ==
  [op |-> "removePeer", peer |-> p, caller |-> c, calls |-> calls,
   unregisterErr |-> unregisterErr]

\* Caller c may enter removePeer(p): handle is leaving its message loop, the
\* fork-check timer fires, or the downloader or fetcher drops the peer.
MayRemove(p, c) ==
  /\ rmPc[p][c] = "idle"
  /\ CASE c = "defer" -> pc[p] = "loop"
       [] c = "timer" -> forkDrop[p] = "armed"
       [] c = "drop" -> p \in dlPeers

\* A plausible slip: the short circuit for an unknown id is missing.
RemoveLookup_noShortCircuit(p) == TRUE

\* removePeer, lines 207-210: peer := pm.peers.Peer(id); peer # nil.
RemoveLookup(p) == p \in peers

\* The caller's own state when it enters removePeer: handle has run its
\* deferred timer cleanup (lines 324-329); the timer has fired.
EnterRemove(p, c, returns) ==
  /\ forkDrop' = [forkDrop EXCEPT ![p] =
                    IF c = "defer" THEN "nil"
                    ELSE IF c = "timer" THEN "fired" ELSE @]
  /\ IF c = "defer"
     THEN /\ pc' = [pc EXCEPT ![p] = IF returns THEN "gone" ELSE "removing"]
          /\ wg' = IF returns THEN wg - 1 ELSE wg
     ELSE UNCHANGED <<pc, wg>>

\* removePeer up to its lookup (lines 205-210).
RemoveCheck(p, c) ==
  /\ MayRemove(p, c)
  /\ IF RemoveLookup(p)
     THEN /\ rmPc' = [rmPc EXCEPT ![p][c] = "found"]
          /\ EnterRemove(p, c, FALSE)
          /\ out' = NoOut
     ELSE /\ rmPc' = [rmPc EXCEPT ![p][c] = "done"]
          /\ EnterRemove(p, c, TRUE)
          /\ out' = Removed(p, c, <<>>, FALSE)
  /\ UNCHANGED <<trusted, peerTd, disconnected, peers, dlPeers, stopVars,
                 loops, daoForkBlock, chainHead, side, query, replied, reply,
                 store, gossipVars, bcastVars, udpVars, manifest, usb>>

\* removePeer after a successful lookup (lines 211-221): unregister from the
\* downloader and the peer set, errors ignored or logged, and disconnect.
\* The deferred call then lets handle return (wg.Done in the Run closure).
RemoveFinish(p, c) ==
  /\ rmPc[p][c] = "found"
  /\ rmPc' = [rmPc EXCEPT ![p][c] = "done"]
  /\ dlPeers' = dlPeers \ {p}
  /\ peers' = peers \ {p}
  /\ disconnected' = [disconnected EXCEPT ![p] = TRUE]
  /\ out' = Removed(p, c, <<"downloader.UnregisterPeer", "peers.Unregister",
                           "Disconnect">>, p \notin peers)
  /\ IF c = "defer"
     THEN /\ pc' = [pc EXCEPT ![p] = "gone"]
          /\ wg' = wg - 1
     ELSE UNCHANGED <<pc, wg>>
  /\ UNCHANGED <<trusted, peerTd, forkDrop, stopVars, loops, daoForkBlock,
                 chainHead, side, query, replied, reply, store, gossipVars,
                 bcastVars, udpVars, manifest, usb>>

(* ------------------------------ handleMsg ----------------------------- *)
\* Extra-data of a header: the DAO fork marker or anything else.
DAOForkBlockExtra == "dao-hard-fork"
\* chainconfig.DAOForkSupport: this node follows the fork.
DAOForkSupport == TRUE

Headers == [number : {DAOForkNum, DAOForkNum + 1},
            extra : {DAOForkBlockExtra, "other"}]

h_fork == [number |-> DAOForkNum, extra |-> DAOForkBlockExtra]
h_next == [number |-> DAOForkNum + 1, extra |-> "other"]

\* Header batches a remote may send: empty, every single header, one pair.
HeaderBatches == {<<>>} \cup {<<h>> : h \in Headers} \cup {<<h_fork, h_next>>}

\* misc.VerifyDAOHeaderExtraData on a header at the fork block: pro-fork
\* nodes require the marker, no-fork nodes refuse it. TRUE when it errs.
VerifyDAOHeaderExtraDataErr(h) ==
  IF DAOForkSupport THEN h.extra # DAOForkBlockExtra
  ELSE h.extra = DAOForkBlockExtra

\* Messages a remote may send after the handshake.
Msgs ==
  [code : {"StatusMsg", "TooLarge", "InvalidCode", "Undecodable", "Other"},
   headers : {<<>>}]
  \cup [code : {"BlockHeadersMsg"}, headers : HeaderBatches]

\* What handleMsg did with message m: the argument of each call it made to
\* the fetcher and to the downloader, in order.
Handled(p, m, toFetcher, toDownloader) ==
  [op |-> "handled", peer |-> p, msg |-> m, fetcher |-> toFetcher,
   downloader |-> toDownloader]

\* handleMsg keeps the peer: only p.forkDrop and the calls made change.
Continue(p, m, drop, toFetcher, toDownloader) ==
  /\ forkDrop' = [forkDrop EXCEPT ![p] = drop]
  /\ out' = Handled(p, m, toFetcher, toDownloader)
  /\ UNCHANGED <<pc, trusted, peerTd, disconnected, peers, dlPeers, wg,
                 stopVars, loops, cfgVars>>

\* A plausible slip: the TD comparison is strict.
VerifyDAO_strict(p) ==
  ~(HasHeaderByNumber(daoForkBlock) /\ peerTd[p] > GetTd(daoForkBlock))

\* Lines 450-458: an empty reply passes the fork check unless the local chain
\* has the fork header and the peer's TD is at or above the TD at it.
VerifyDAO(p) ==
  ~(HasHeaderByNumber(daoForkBlock) /\ peerTd[p] >= GetTd(daoForkBlock))

\* Line 471: a single header is the challenge's reply when the timer is set
\* and the header's number is the fork block's.
IsForkReply(p, headers) ==
  /\ Len(headers) = 1
  /\ forkDrop[p] # "nil"
  /\ daoForkBlock = headers[1].number

\* Lines 467-492 past the fork check: a single header is offered to
\* fetcher.FilterHeaders, which keeps it or hands it back; what is left, and
\* every batch that is not a single header, goes to downloader.DeliverHeaders.
\* p.forkDrop becomes drop.
\* What a call into the downloader or the transaction pool answers: nil or
\* an error.
CallResults == {Nil, "failed"}

\* handleMsg keeps the peer although a call it made answered err # Nil.
ContinueFailing(p, m, drop, toFetcher, toDownloader, err) ==
  /\ forkDrop' = [forkDrop EXCEPT ![p] = drop]
  /\ out' = IF err = Nil THEN Handled(p, m, toFetcher, toDownloader)
            ELSE [op |-> "handled", peer |-> p, msg |-> m,
                  fetcher |-> toFetcher, downloader |-> toDownloader,
                  failed |-> err]
  /\ UNCHANGED <<pc, trusted, peerTd, disconnected, peers, dlPeers, wg,
                 stopVars, loops, cfgVars>>

\* A plausible slip: the error of the call is returned.
Recoverable_returned(p, m, err, go) ==
  IF err = Nil THEN go ELSE ReturnOn(p, err, TRUE, m)

\* The result err of a delivery to the downloader (lines 488-491, 541-544,
\* 583-585, 633-635) or of txpool.AddRemotes (line 713) is at most logged:
\* handleMsg goes on as go says.
Recoverable(p, m, err, go) == go

DeliverHeaders(p, m, drop) ==
  \E residue \in (IF Len(m.headers) = 1 THEN {m.headers, <<>>}
                  ELSE {m.headers}) :
    LET toFetcher == IF Len(m.headers) = 1 THEN <<m.headers>> ELSE <<>>
    IN IF Len(residue) > 0 \/ Len(m.headers) # 1
       THEN \E err \in CallResults :
              Recoverable(p, m, err,
                          ContinueFailing(p, m, drop, toFetcher, <<residue>>,
                                          err))
       ELSE Continue(p, m, drop, toFetcher, <<>>)

\* Replies to the downloader's requests for bodies, node data and receipts.
DeliveryMsgs ==
  [code : {"BlockBodiesMsg", "NodeDataMsg", "ReceiptsMsg"},
   decodes : BOOLEAN, items : 0..1]

\* Lines 522-545, 575-586, 625-636 on an eth63 connection: the decoded
\* batch, empty or not, is delivered to the downloader.
HandleDelivery(p, m) ==
  IF ~m.decodes THEN ReturnOn(p, "ErrDecode", TRUE, m)
  ELSE \E err \in CallResults :
         Recoverable(p, m, err,
                     ContinueFailing(p, m, forkDrop[p], <<>>, <<m.items>>,
                                     err))

\* A plausible slip: the return after a passed fork check is missing and the
\* header goes on to the fetcher and the downloader.
HandleBlockHeaders_fallsThrough(p, m) ==
  IF Len(m.headers) = 0 /\ forkDrop[p] # "nil" /\ VerifyDAO(p)
  THEN Continue(p, m, "nil", <<>>, <<>>)
  ELSE IF IsForkReply(p, m.headers)
  THEN IF VerifyDAOHeaderExtraDataErr(m.headers[1])
       THEN ReturnOn(p, "ErrBadProDAOExtra", TRUE, m)
       ELSE DeliverHeaders(p, m, "nil")
  ELSE DeliverHeaders(p, m, forkDrop[p])

\* handleMsg, case BlockHeadersMsg (lines 439-492).
HandleBlockHeaders(p, m) ==
  IF Len(m.headers) = 0 /\ forkDrop[p] # "nil" /\ VerifyDAO(p)
  THEN Continue(p, m, "nil", <<>>, <<>>)
  ELSE IF IsForkReply(p, m.headers)
  THEN IF VerifyDAOHeaderExtraDataErr(m.headers[1])
       THEN ReturnOn(p, "ErrBadProDAOExtra", TRUE, m)
       ELSE Continue(p, m, "nil", <<>>, <<>>)
  ELSE DeliverHeaders(p, m, forkDrop[p])


\* Line 348: msg.Size > ProtocolMaxMsgSize, for the messages that carry
\* their size.
Oversize(m) == "oversize" \in DOMAIN m /\ m.oversize

\* blockchain.HasBlock(hash, number): the canonical chain holds the block.
\* A plausible slip: the announce pass does not look the block up.
HasBlock_anyBlock(hash, number) == TRUE

HasBlock(hash, number) == number <= chainHead /\ hash = number + 1

\* Announcements a remote may send: each block up to one above the highest
\* head, and the genesis hash under a wrong number.
Announces ==
  {[hash |-> n + 1, number |-> n] : n \in 0..(MaxHead + 1)}
  \cup {[hash |-> 1, number |-> 1]}

\* Blocks a remote may propagate, with their difficulty, and the total
\* difficulties it may claim for them.
GossipBlocks ==
  [hash : {MaxHead + 2}, number : {MaxHead + 1}, parentHash : {MaxHead + 1},
   difficulty : {1, 2}]
  \cup [hash : {2}, number : {1}, parentHash : {1}, difficulty : {1}]

GossipTds == 0..(MaxTd + 2)

\* Transactions by hash; 0 is a nil element of the decoded list.
Txs == 1..NumTxs

\* Messages of the gossip part of the protocol; decodes is whether msg.Decode
\* succeeds. A TxMsg that is too large or does not decode carries no list.
GossipMsgs ==
  [code : {"NewBlockHashesMsg"}, decodes : {TRUE},
   announces : SeqsUpTo(Announces, 2)]
  \cup [code : {"NewBlockHashesMsg"}, decodes : {FALSE}, announces : {<<>>}]
  \cup [code : {"NewBlockMsg"}, decodes : BOOLEAN, block : GossipBlocks,
        td : GossipTds]
  \cup [code : {"TxMsg"}, oversize : {FALSE}, decodes : {TRUE},
        txs : SeqsUpTo(Txs \cup {0}, MaxTxBatch)]
  \cup [code : {"TxMsg"}, oversize : BOOLEAN, decodes : {FALSE}, txs : {<<>>}]

\* What handleMsg did with a gossip message m: its calls to the fetcher and
\* the transaction pool, p.SetHead and the synchronise it started.
Gossiped(p, m, toFetcher, toTxpool, setHead, synchronise) ==
  [op |-> "handled", peer |-> p, msg |-> m, fetcher |-> toFetcher,
   downloader |-> <<>>, txpool |-> toTxpool, setHead |-> setHead,
   synchronise |-> synchronise]

\* handleMsg keeps the peer after a gossip message: the peer's known sets
\* and head change, and calls were made.
GossipContinue(p, m, blocks, txs, td, result) ==
  /\ knownBlocks' = [knownBlocks EXCEPT ![p] = @ \cup blocks]
  /\ knownTxs' = [knownTxs EXCEPT ![p] = @ \cup txs]
  /\ peerTd' = [peerTd EXCEPT ![p] = td]
  /\ out' = result
  /\ UNCHANGED <<pc, trusted, forkDrop, disconnected, peers, dlPeers, wg,
                 stopVars, loops, daoForkBlock, chainHead, side, query,
                 replied, reply, store, acceptTxs, fastSync, bcastVars,
                 udpVars, manifest, rmPc, usb>>

RECURSIVE NotifyCalls(_)
NotifyCalls(announces) ==
  IF announces = <<>> THEN <<>>
  ELSE IF HasBlock(announces[1].hash, announces[1].number)
  THEN NotifyCalls(Tail(announces))
  ELSE <<[call |-> "Notify", hash |-> announces[1].hash,
          number |-> announces[1].number]>> \o NotifyCalls(Tail(announces))

\* A plausible slip: the fetcher is notified of every announcement.
HandleNewBlockHashes_notifiesAll(p, m) ==
  IF ~m.decodes THEN ReturnOn(p, "ErrDecode", TRUE, m) ELSE
  GossipContinue(p, m, {m.announces[i].hash : i \in 1..Len(m.announces)}, {},
                 peerTd[p],
                 Gossiped(p, m,
                          [i \in 1..Len(m.announces) |->
                             [call |-> "Notify", hash |-> m.announces[i].hash,
                              number |-> m.announces[i].number]],
                          <<>>, <<>>, FALSE))

\* handleMsg, case NewBlockHashesMsg (lines 639-659).
HandleNewBlockHashes(p, m) ==
  IF ~m.decodes THEN ReturnOn(p, "ErrDecode", TRUE, m) ELSE
  GossipContinue(p, m, {m.announces[i].hash : i \in 1..Len(m.announces)}, {},
                 peerTd[p],
                 Gossiped(p, m, NotifyCalls(m.announces), <<>>, <<>>, FALSE))

\* A plausible slip: the head is updated when the TD is not lower (>=).
HandleNewBlock_notStrict(p, m) ==
  LET trueHead == m.block.parentHash
      trueTD == m.td - m.block.difficulty
      enqueue == <<[call |-> "Enqueue", block |-> m.block]>>
  IN IF ~m.decodes THEN ReturnOn(p, "ErrDecode", TRUE, m)
     ELSE IF trueTD >= peerTd[p]
     THEN GossipContinue(p, m, {m.block.hash}, {}, trueTD,
                         Gossiped(p, m, enqueue, <<>>, <<trueHead, trueTD>>,
                                  trueTD > GetTd(chainHead)))
     ELSE GossipContinue(p, m, {m.block.hash}, {}, peerTd[p],
                         Gossiped(p, m, enqueue, <<>>, <<>>, FALSE))

\* handleMsg, case NewBlockMsg (lines 661-692).
HandleNewBlock(p, m) ==
  LET trueHead == m.block.parentHash
      trueTD == m.td - m.block.difficulty
      enqueue == <<[call |-> "Enqueue", block |-> m.block]>>
  IN IF ~m.decodes THEN ReturnOn(p, "ErrDecode", TRUE, m)
     ELSE IF trueTD > peerTd[p]
     THEN GossipContinue(p, m, {m.block.hash}, {}, trueTD,
                         Gossiped(p, m, enqueue, <<>>, <<trueHead, trueTD>>,
                                  trueTD > GetTd(chainHead)))
     ELSE GossipContinue(p, m, {m.block.hash}, {}, peerTd[p],
                         Gossiped(p, m, enqueue, <<>>, <<>>, FALSE))

\* A plausible slip: the acceptTxs test is missing.
HandleTx_alwaysAccepts(p, m) ==
  IF ~m.decodes \/ \E i \in 1..Len(m.txs) : m.txs[i] = 0
  THEN ReturnOn(p, "ErrDecode", TRUE, m)
  ELSE GossipContinue(p, m, {}, {m.txs[i] : i \in 1..Len(m.txs)}, peerTd[p],
                      Gossiped(p, m, <<>>, <<m.txs>>, <<>>, FALSE))

\* handleMsg, case TxMsg (lines 694-713). A nil transaction ends handle, so
\* the marks made before it are on a peer that is discarded.
\* The record of a Tx message handed to the pool, which answered err.
GossipedFailing(p, m, toTxpool, err) ==
  IF err = Nil THEN Gossiped(p, m, <<>>, toTxpool, <<>>, FALSE)
  ELSE [op |-> "handled", peer |-> p, msg |-> m, fetcher |-> <<>>,
        downloader |-> <<>>, txpool |-> toTxpool, setHead |-> <<>>,
        synchronise |-> FALSE, failed |-> err]

HandleTx(p, m) ==
  IF acceptTxs = 0
  THEN GossipContinue(p, m, {}, {}, peerTd[p],
                      Gossiped(p, m, <<>>, <<>>, <<>>, FALSE))
  ELSE IF ~m.decodes \/ \E i \in 1..Len(m.txs) : m.txs[i] = 0
  THEN ReturnOn(p, "ErrDecode", TRUE, m)
  ELSE \E err \in CallResults :
         Recoverable(p, m, err,
                     GossipContinue(p, m, {},
                                    {m.txs[i] : i \in 1..Len(m.txs)},
                                    peerTd[p],
                                    GossipedFailing(p, m, <<m.txs>>, err)))

\* handleMsg (lines 342-719) for the message m read; any error ends handle.
\* A plausible slip: a second Status message is ignored.
ExtraStatus_ignored(p, m) == Continue(p, m, forkDrop[p], <<>>, <<>>)

\* Lines 354-357: Status messages should never arrive after the handshake.
ExtraStatus(p, m) == ReturnOn(p, "ErrExtraStatusMsg", TRUE, m)

HandleMsg(p, m) ==
  /\ pc[p] = "loop"
  /\ CASE m.code = "TooLarge" \/ Oversize(m) ->
              ReturnOn(p, "ErrMsgTooLarge", TRUE, m)
       [] m.code = "StatusMsg" -> ExtraStatus(p, m)
       [] m.code = "Undecodable" -> ReturnOn(p, "ErrDecode", TRUE, m)
       [] m.code = "InvalidCode" -> ReturnOn(p, "ErrInvalidMsgCode", TRUE, m)
       [] m.code = "BlockHeadersMsg" -> HandleBlockHeaders(p, m)
       [] m.code = "NewBlockHashesMsg" -> HandleNewBlockHashes(p, m)
       [] m.code = "NewBlockMsg" -> HandleNewBlock(p, m)
       [] m.code = "TxMsg" -> HandleTx(p, m)
       [] m.code \in {"BlockBodiesMsg", "NodeDataMsg", "ReceiptsMsg"} ->
              HandleDelivery(p, m)
       [] m.code = "Other" -> Continue(p, m, forkDrop[p], <<>>, <<>>)

\* p.rw.ReadMsg fails: the remote hung up, or the peer was disconnected.
ReadMsgErr(p) ==
  /\ pc[p] = "loop"
  /\ Return(p, "read error", TRUE)

(* ------------------------- the local chain ---------------------------- *)
\* Hashes: 0 is the zero hash, the canonical block n has hash n + 1, the side
\* block n has hash 100 + n, and 99 is a hash of no block.
NilHeader == [hash |-> 0, number |-> 0, parentHash |-> 0]

CanonHeader(n) ==
  [hash |-> n + 1, number |-> n, parentHash |-> IF n = 0 THEN 0 ELSE n]

SideHeader(n) ==
  [hash |-> 100 + n, number |-> n,
   parentHash |-> IF n = side.at + 1 THEN side.at + 1 ELSE 100 + n - 1]

\* Every header the local chain database holds.
LocalHeaders ==
  {CanonHeader(n) : n \in 0..chainHead}
  \cup {SideHeader(n) : n \in (side.at + 1)..(side.at + side.len)}

\* blockchain.GetHeaderByNumber: the canonical header, NilHeader for none.
GetHeaderByNumber(n) ==
  IF n <= chainHead THEN CanonHeader(n) ELSE NilHeader

\* blockchain.GetHeaderByHash
GetHeaderByHash(h) ==
  IF \E x \in LocalHeaders : x.hash = h
  THEN CHOOSE x \in LocalHeaders : x.hash = h
  ELSE NilHeader

\* blockchain.GetHeader(hash, number)
GetHeader(h, n) ==
  IF GetHeaderByHash(h) # NilHeader /\ GetHeaderByHash(h).number = n
  THEN GetHeaderByHash(h)
  ELSE NilHeader

\* blockchain.GetBlockHashesFromHash(hash, max): the hashes of up to max
\* ancestors of the block, parent first.
RECURSIVE AncestorHashes(_, _, _)
AncestorHashes(header, max, chain) ==
  IF Len(chain) >= max \/ header.number = 0 THEN chain
  ELSE IF GetHeader(header.parentHash, header.number - 1) = NilHeader
  THEN chain
  ELSE AncestorHashes(GetHeader(header.parentHash, header.number - 1), max,
                      Append(chain, header.parentHash))

GetBlockHashesFromHash(h, max) ==
  IF GetHeaderByHash(h) = NilHeader THEN <<>>
  ELSE AncestorHashes(GetHeaderByHash(h), max, <<>>)

(* --------------------------- GetBlockHeaders -------------------------- *)
softResponseLimit == 2 * 1024 * 1024
estHeaderRlpSize == 500

\* uint64 and int arithmetic at the model's width.
UintMod == 2 ^ UintBits
UintMax == UintMod - 1
IntMax == 2 ^ (UintBits - 1) - 1
\* int(x) of a uint64 x
ToInt(x) == IF x > IntMax THEN x - UintMod ELSE x
\* i + 1 on int
IntInc(i) == IF i = IntMax THEN 0 - IntMax - 1 ELSE i + 1
\* x + y and x - y on uint64
UAdd(x, y) == (x + y) % UintMod
USub(x, y) == (x - y + UintMod) % UintMod

\* Lines 394-402: follow parent hashes for up to n steps from (hash, number);
\* a missing header sets unknown and stops.
RECURSIVE WalkBack(_, _, _, _)
WalkBack(hash, number, i, n) ==
  IF i >= n THEN [hash |-> hash, unknown |-> FALSE]
  ELSE IF GetHeader(hash, number) = NilHeader
  THEN [hash |-> hash, unknown |-> TRUE]
  ELSE WalkBack(GetHeader(hash, number).parentHash, USub(number, 1), i + 1, n)

\* A plausible slip: the header at the next number is taken without testing
\* that the current header is its ancestor.
HashForward_noAncestorCheck(q, origin) ==
  LET current == origin.number
      next == UAdd(UAdd(current, q.skip), 1)
      header == GetHeaderByNumber(next)
  IN IF next <= current THEN [q |-> q, unknown |-> TRUE]
     ELSE IF header = NilHeader THEN [q |-> q, unknown |-> TRUE]
     ELSE [q |-> [q EXCEPT !.hash = header.hash], unknown |-> FALSE]

\* Lines 403-423: hash based traversal towards the leaf.
HashForward(q, origin) ==
  LET current == origin.number
      next == UAdd(UAdd(current, q.skip), 1)
      header == GetHeaderByNumber(next)
      hashes == GetBlockHashesFromHash(header.hash, UAdd(q.skip, 1))
  IN IF next <= current THEN [q |-> q, unknown |-> TRUE]
     ELSE IF header = NilHeader THEN [q |-> q, unknown |-> TRUE]
     ELSE IF Len(hashes) > q.skip /\ hashes[q.skip + 1] = q.hash
     THEN [q |-> [q EXCEPT !.hash = header.hash], unknown |-> FALSE]
     ELSE [q |-> q, unknown |-> TRUE]

\* Lines 390-435: advance the query past the header origin just gathered.
Advance(q, origin) ==
  IF q.hash # 0 /\ q.reverse
  THEN LET w == WalkBack(q.hash, origin.number, 0, IntInc(ToInt(q.skip)))
       IN [q |-> [q EXCEPT !.hash = w.hash], unknown |-> w.unknown]
  ELSE IF q.hash # 0 /\ ~q.reverse
  THEN HashForward(q, origin)
  ELSE IF q.reverse
  THEN IF q.number >= UAdd(q.skip, 1)
       THEN [q |-> [q EXCEPT !.number = USub(q.number, UAdd(q.skip, 1))],
             unknown |-> FALSE]
       ELSE [q |-> q, unknown |-> TRUE]
  ELSE [q |-> [q EXCEPT !.number = UAdd(q.number, UAdd(q.skip, 1))],
        unknown |-> FALSE]

\* A plausible slip: the fetch limit is tested with <= and one header more
\* than MaxHeaderFetch is gathered.
MoreHeaders_offByOne(q, headers, bytes, unknown) ==
  /\ ~unknown
  /\ Len(headers) < ToInt(q.amount)
  /\ bytes < softResponseLimit
  /\ Len(headers) <= MaxHeaderFetch

\* Line 375: the loop condition.
MoreHeaders(q, headers, bytes, unknown) ==
  /\ ~unknown
  /\ Len(headers) < ToInt(q.amount)
  /\ bytes < softResponseLimit
  /\ Len(headers) < MaxHeaderFetch

\* Lines 367-436: gather headers until the fetch or network limit is reached.
RECURSIVE GatherHeaders(_, _, _, _, _)
GatherHeaders(q, hashMode, headers, bytes, unknown) ==
  IF ~MoreHeaders(q, headers, bytes, unknown) THEN headers
  ELSE LET origin == IF hashMode THEN GetHeaderByHash(q.hash)
                     ELSE GetHeaderByNumber(q.number)
       IN IF origin = NilHeader THEN headers
          ELSE GatherHeaders(Advance(q, origin).q, hashMode,
                             Append(headers, origin), bytes + estHeaderRlpSize,
                             Advance(q, origin).unknown)

\* handleMsg, case GetBlockHeadersMsg (lines 360-437): the reply sent.
HandleGetBlockHeaders ==
  /\ ~replied
  /\ replied' = TRUE
  /\ reply' = GatherHeaders(query, query.hash # 0, <<>>, 0, FALSE)
  /\ UNCHANGED <<peerVars, stopVars, loops, daoForkBlock, chainHead, side,
                 query, out, store, gossipVars, bcastVars, udpVars, manifest, rmPc, usb>>

(* -------------------------------- Stop -------------------------------- *)
\* Line 244: pm.txsSub.Unsubscribe().
StopUnsubscribeTxs ==
  /\ stopPc = "idle"
  /\ txsSub' = FALSE
  /\ stopPc' = "txsUnsubscribed"
  /\ out' = NoOut
  /\ UNCHANGED <<peerVars, minedBlockSub, noMorePeersSent, quitSync, closed,
                 loops, cfgVars>>

\* Line 245: pm.minedBlockSub.Unsubscribe().
StopUnsubscribeMined ==
  /\ stopPc = "txsUnsubscribed"
  /\ minedBlockSub' = FALSE
  /\ stopPc' = "minedUnsubscribed"
  /\ out' = NoOut
  /\ UNCHANGED <<peerVars, txsSub, noMorePeersSent, quitSync, closed, loops,
                 cfgVars>>

\* Line 249: pm.noMorePeers <- struct{}{}; the syncer receives and returns.
StopNoMorePeers ==
  /\ stopPc = "minedUnsubscribed"
  /\ SyncerRunning
  /\ loops' = loops \ {"syncer"}
  /\ noMorePeersSent' = noMorePeersSent + 1
  /\ stopPc' = "noMorePeersSent"
  /\ out' = NoOut
  /\ UNCHANGED <<peerVars, txsSub, minedBlockSub, quitSync, closed, cfgVars>>

\* A plausible slip: quitSync is closed without signalling the syncer first.
StopCloseQuitSync_early ==
  /\ stopPc = "minedUnsubscribed"
  /\ quitSync' = TRUE
  /\ stopPc' = "quitSyncClosed"
  /\ out' = NoOut
  /\ UNCHANGED <<peerVars, txsSub, minedBlockSub, noMorePeersSent, closed,
                 loops, cfgVars>>

\* Line 252: close(pm.quitSync).
StopCloseQuitSync ==
  /\ stopPc = "noMorePeersSent"
  /\ quitSync' = TRUE
  /\ stopPc' = "quitSyncClosed"
  /\ out' = NoOut
  /\ UNCHANGED <<peerVars, txsSub, minedBlockSub, noMorePeersSent, closed,
                 loops, cfgVars>>

\* Line 258: pm.peers.Close() disconnects every registered peer and closes
\* the set for registrations.
StopClosePeers ==
  /\ stopPc = "quitSyncClosed"
  /\ closed' = TRUE
  /\ disconnected' = [p \in Peers |-> disconnected[p] \/ p \in peers]
  /\ stopPc' = "peersClosed"
  /\ out' = NoOut
  /\ UNCHANGED <<pc, trusted, peerTd, forkDrop, peers, dlPeers, wg, txsSub,
                 minedBlockSub, noMorePeersSent, quitSync, loops, cfgVars>>

\* Lines 261-264: pm.wg.Wait() returns once the counter is zero; Stop returns.
StopWait ==
  /\ stopPc = "peersClosed"
  /\ wg = 0
  /\ stopPc' = "returned"
  /\ out' = NoOut
  /\ UNCHANGED <<peerVars, txsSub, minedBlockSub, noMorePeersSent, quitSync,
                 closed, loops, cfgVars>>

\* txBroadcastLoop returns when txsSub.Err() is closed by the unsubscribe.
TxBroadcastLoopExit ==
  /\ "txBroadcastLoop" \in loops
  /\ ~txsSub
  /\ loops' = loops \ {"txBroadcastLoop"}
  /\ out' = NoOut
  /\ UNCHANGED <<peerVars, stopVars, cfgVars>>

\* minedBroadcastLoop ends when the subscription's channel is closed.
MinedBroadcastLoopExit ==
  /\ "minedBroadcastLoop" \in loops
  /\ ~minedBlockSub
  /\ loops' = loops \ {"minedBroadcastLoop"}
  /\ out' = NoOut
  /\ UNCHANGED <<peerVars, stopVars, cfgVars>>


(* ------------- GetBlockBodies, GetNodeData, GetReceipts --------------- *)
\* What the database holds under a hash: the size in bytes of the stored
\* item (0: nothing stored) and, for receipts, what the block's header says
\* of its receipt root ("none": no such header).
StoreEntries ==
  {e \in [size : {0, 1, softResponseLimit}, root : {"none", "empty", "other"}] :
     e.size > 0 => e.root = "other"}

\* The requests: the message code, the protocol version of the connection,
\* whether the payload is an RLP list, and its elements.
DataRequests ==
  [kind : {"GetBlockBodiesMsg", "GetNodeDataMsg", "GetReceiptsMsg"},
   version : {62, 63}, list : {TRUE},
   hashes : SeqsUpTo(DataHashes \cup {0}, MaxReqLen)]
  \cup [kind : {"GetBlockBodiesMsg", "GetNodeDataMsg", "GetReceiptsMsg"},
        version : {62, 63}, list : {FALSE}, hashes : {<<>>}]

\* The item count limit of each loop (lines 507, 561, 602).
MaxFetch(kind) ==
  CASE kind = "GetBlockBodiesMsg" -> MaxBlockFetch
    [] kind = "GetNodeDataMsg" -> MaxStateFetch
    [] kind = "GetReceiptsMsg" -> MaxReceiptFetch

\* Lines 515, 569, 610-622: the item the database yields for a hash, size 0
\* when the hash contributes nothing. Receipts that are not stored are sent
\* as the encoding of an empty list (1 byte) when the header is known and
\* has the empty receipt root.
DataItem(kind, h) ==
  IF kind = "GetReceiptsMsg" /\ store[h].size = 0
  THEN IF store[h].root = "empty" THEN [hash |-> h, size |-> 1]
       ELSE [hash |-> h, size |-> 0]
  ELSE [hash |-> h, size |-> store[h].size]

\* A plausible slip: the count limit is tested with <=.
MoreData_offByOne(kind, items, bytes) ==
  bytes < softResponseLimit /\ Len(items) <= MaxFetch(kind)

\* Lines 507, 561, 602: the loop condition.
MoreData(kind, items, bytes) ==
  bytes < softResponseLimit /\ Len(items) < MaxFetch(kind)

\* Lines 507-519, 561-573, 602-623: gather items from element i on; consumed
\* counts the elements decoded.
RECURSIVE GatherData(_, _, _, _, _)
GatherData(kind, hashes, i, items, bytes) ==
  IF ~MoreData(kind, items, bytes) \/ i > Len(hashes)
  THEN [items |-> items, consumed |-> i - 1, err |-> Nil]
  ELSE IF hashes[i] = 0
  THEN [items |-> <<>>, consumed |-> i, err |-> "ErrDecode"]
  ELSE IF DataItem(kind, hashes[i]).size = 0
  THEN GatherData(kind, hashes, i + 1, items, bytes)
  ELSE GatherData(kind, hashes, i + 1,
                  Append(items, DataItem(kind, hashes[i])),
                  bytes + DataItem(kind, hashes[i]).size)

\* handleMsg, cases GetBlockBodiesMsg, GetNodeDataMsg and GetReceiptsMsg
\* (lines 494-520, 547-574, 589-624) for the request in query.
ServeData(q) ==
  IF q.kind # "GetBlockBodiesMsg" /\ q.version < 63
  THEN [items |-> <<>>, consumed |-> 0, err |-> "ErrInvalidMsgCode"]
  ELSE IF ~q.list
  THEN [items |-> <<>>, consumed |-> 0, err |-> "rlp.ErrExpectedList"]
  ELSE GatherData(q.kind, q.hashes, 1, <<>>, 0)

HandleGetData ==
  /\ ~replied
  /\ replied' = TRUE
  /\ reply' = ServeData(query).items
  /\ out' = [op |-> "data", consumed |-> ServeData(query).consumed,
             err |-> ServeData(query).err]
  /\ UNCHANGED <<peerVars, stopVars, loops, daoForkBlock, chainHead, side,
                 query, store, gossipVars, bcastVars, udpVars, manifest, rmPc, usb>>


(* ------------------------------ inserter ------------------------------ *)
\* The fetcher's insert callback (lines 191-199): during fast sync the blocks
\* are discarded; otherwise the node counts as synchronised and the blocks go
\* to blockchain.InsertChain, which may extend the canonical chain.
\* A plausible slip: the fast-sync test is missing.
Inserter_importsAlways ==
  /\ acceptTxs' = 1
  /\ chainHead' \in {chainHead,
                     IF chainHead < MaxHead THEN chainHead + 1
                     ELSE chainHead}
  /\ out' = [op |-> "inserter", insertChain |-> TRUE]
  /\ UNCHANGED <<peerVars, stopVars, loops, daoForkBlock, side, query,
                 replied, reply, store, knownBlocks, knownTxs, fastSync,
                 bcastVars, udpVars, manifest, rmPc, usb>>

Inserter ==
  /\ IF fastSync = 1
     THEN /\ UNCHANGED <<acceptTxs, chainHead>>
          /\ out' = [op |-> "inserter", insertChain |-> FALSE]
     ELSE /\ acceptTxs' = 1
          /\ chainHead' \in {chainHead,
                             IF chainHead < MaxHead THEN chainHead + 1
                             ELSE chainHead}
          /\ out' = [op |-> "inserter", insertChain |-> TRUE]
  /\ UNCHANGED <<peerVars, stopVars, loops, daoForkBlock, side, query,
                 replied, reply, store, knownBlocks, knownTxs, fastSync,
                 bcastVars, udpVars, manifest, rmPc, usb>>


(* ------------------------------ broadcast ----------------------------- *)
BPeers == 1..NumBcastPeers

\* pm.peers.PeersWithoutBlock(hash)
PeersWithoutBlock(hash) == {p \in peers : hash \notin knownBlocks[p]}

\* int(math.Sqrt(float64(n)))
Isqrt(n) == CHOOSE r \in 0..n : r * r <= n /\ (r + 1) * (r + 1) > n

\* A plausible slip: the block is sent to every peer without it.
Transfer_all(without) == {without}

\* peers[:int(math.Sqrt(float64(len(peers))))] (line 738): the peer set is a
\* map, so the slice PeersWithoutBlock returns is in no particular order and
\* its prefix is any subset of that size.
Transfer(without) ==
  {T \in SUBSET without : Cardinality(T) = Isqrt(Cardinality(without))}

\* The canonical block n as the miner seals it.
MinedBlock(n) ==
  [hash |-> n + 1, number |-> n, parentHash |-> n, difficulty |-> 1]

\* A block the fetcher hands to BroadcastBlock that is not in the chain and
\* whose parent is not in the database.
FetchedBlocks ==
  {[hash |-> 99, number |-> MaxHead + 3, parentHash |-> 98, difficulty |-> 1]}

\* blockchain.GetBlock(block.ParentHash(), block.NumberU64()-1) # nil
HasParent(block) ==
  /\ block.number >= 1
  /\ block.number - 1 <= chainHead
  /\ block.parentHash = block.number

\* What a BroadcastBlock call did: the peers it enqueued the block (with td)
\* or its announcement for.
Broadcast(block, propagate, td, recipients, by) ==
  [op |-> "broadcast", block |-> block, propagate |-> propagate, td |-> td,
   recipients |-> recipients, by |-> by]

\* peer.AsyncSendNewBlock / AsyncSendNewBlockHash for each peer of the set:
\* the send is queued and the hash is marked known on the peer.
AsyncSend(recipients, hash) ==
  knownBlocks' = [p \in DOMAIN knownBlocks |->
                    IF p \in recipients THEN knownBlocks[p] \cup {hash}
                    ELSE knownBlocks[p]]

\* BroadcastBlock (lines 723-752); sent is the set of peers it chose.
BroadcastBlock(block, propagate, by, sent) ==
  LET without == PeersWithoutBlock(block.hash)
  IN IF propagate
     THEN IF HasParent(block)
          THEN /\ sent \in Transfer(without)
               /\ AsyncSend(sent, block.hash)
               /\ out' = Broadcast(block, TRUE,
                                   block.difficulty + GetTd(block.number - 1),
                                   sent, by)
          ELSE /\ sent = {}
               /\ UNCHANGED knownBlocks
               /\ out' = Broadcast(block, TRUE, 0, {}, by)
     ELSE IF HasBlock(block.hash, block.number)
          THEN /\ sent = without
               /\ AsyncSend(sent, block.hash)
               /\ out' = Broadcast(block, FALSE, 0, sent, by)
          ELSE /\ sent = {}
               /\ UNCHANGED knownBlocks
               /\ out' = Broadcast(block, FALSE, 0, {}, by)

\* The miner seals the next block, writes it to the chain and posts a
\* NewMinedBlockEvent.
MinerMines ==
  /\ minedBlockSub
  /\ chainHead < MaxHead + 1
  /\ chainHead' = chainHead + 1
  /\ minedCh' = Append(minedCh, MinedBlock(chainHead + 1))
  /\ out' = NoOut
  /\ UNCHANGED <<peerVars, stopVars, loops, daoForkBlock, side, query,
                 replied, reply, store, gossipVars, minedPc, passes, udpVars, manifest, rmPc, usb>>


\* A plausible slip: the two calls are in the wrong order, the announcement
\* going out first.
MinedPropagate_announcesFirst ==
  /\ "minedBroadcastLoop" \in loops
  /\ minedPc = <<>>
  /\ minedCh # <<>>
  /\ \E sent \in SUBSET peers :
       /\ BroadcastBlock(Head(minedCh), FALSE, "miner", sent)
       /\ minedPc' = <<[block |-> Head(minedCh), sent |-> sent]>>
  /\ minedCh' = Tail(minedCh)
  /\ passes' = Append(passes, [hash |-> Head(minedCh).hash,
                               propagate |-> FALSE])
  /\ UNCHANGED <<peerVars, stopVars, loops, daoForkBlock, chainHead, side,
                 query, replied, reply, store, knownTxs, acceptTxs, fastSync,
                 udpVars, manifest, rmPc, usb>>

\* minedBroadcastLoop (lines 774-783), first call: the next event is taken
\* from the subscription and its block is propagated.
MinedPropagate ==
  /\ "minedBroadcastLoop" \in loops
  /\ minedPc = <<>>
  /\ minedCh # <<>>
  /\ \E sent \in SUBSET peers :
       /\ BroadcastBlock(Head(minedCh), TRUE, "miner", sent)
       /\ minedPc' = <<[block |-> Head(minedCh), sent |-> sent]>>
  /\ minedCh' = Tail(minedCh)
  /\ passes' = Append(passes, [hash |-> Head(minedCh).hash,
                               propagate |-> TRUE])
  /\ UNCHANGED <<peerVars, stopVars, loops, daoForkBlock, chainHead, side,
                 query, replied, reply, store, knownTxs, acceptTxs, fastSync,
                 udpVars, manifest, rmPc, usb>>

\* minedBroadcastLoop, second call: the same block is announced.
MinedAnnounce ==
  /\ minedPc # <<>>
  /\ \E sent \in SUBSET peers :
       BroadcastBlock(minedPc[1].block, FALSE, "miner", sent)
  /\ minedPc' = <<>>
  /\ passes' = Append(passes, [hash |-> minedPc[1].block.hash,
                               propagate |-> FALSE])
  /\ UNCHANGED <<peerVars, stopVars, loops, daoForkBlock, chainHead, side,
                 query, replied, reply, store, knownTxs, acceptTxs, fastSync,
                 minedCh, udpVars, manifest, rmPc, usb>>

\* The fetcher's broadcastBlock callback (line 200).
FetcherBroadcast(block, propagate) ==
  /\ \E sent \in SUBSET peers :
       BroadcastBlock(block, propagate, "fetcher", sent)
  /\ UNCHANGED <<peerVars, stopVars, loops, daoForkBlock, chainHead, side,
                 query, replied, reply, store, knownTxs, acceptTxs, fastSync,
                 bcastVars, udpVars, manifest, rmPc, usb>>


\* A plausible slip: the whole batch goes to every peer that lacks any of it.
TxsWithout_all(p, txs) == txs

\* BroadcastTxs, lines 760-766: txset[p], the transactions of the batch that
\* PeersWithoutTx reports p for, in batch order.
TxsWithout(p, txs) ==
  LET Unknown(tx) == tx \notin knownTxs[p]
  IN SelectSeq(txs, Unknown)

\* Lines 768-770: one AsyncSendTransactions call per entry of txset. The map
\* is ranged over in no particular order; the calls are listed by peer id.
RECURSIVE TxSends(_, _)
TxSends(p, txs) ==
  IF p > Cardinality(DOMAIN knownTxs) THEN <<>>
  ELSE (IF p \in peers /\ \E i \in 1..Len(txs) : txs[i] \notin knownTxs[p]
        THEN <<[peer |-> p, txs |-> TxsWithout(p, txs)]>>
        ELSE <<>>) \o TxSends(p + 1, txs)

\* txBroadcastLoop (lines 785-796) receives an event and calls BroadcastTxs
\* (lines 756-771); a queued send marks its transactions known on the peer.
TxBroadcast(txs) ==
  /\ "txBroadcastLoop" \in loops
  /\ txsSub
  /\ LET sends == TxSends(1, txs)
     IN /\ out' = [op |-> "txs", batch |-> txs, sends |-> sends]
        /\ knownTxs' =
             [p \in DOMAIN knownTxs |->
                knownTxs[p] \cup
                  UNION {{sends[i].txs[j] : j \in 1..Len(sends[i].txs)} :
                           i \in {n \in 1..Len(sends) : sends[n].peer = p}}]
  /\ UNCHANGED <<peerVars, stopVars, loops, daoForkBlock, chainHead, side,
                 query, replied, reply, store, knownBlocks, acceptTxs,
                 fastSync, bcastVars, udpVars, manifest, rmPc, usb>>


(* ----------------------------- UDP handler ---------------------------- *)
\* Datagrams handed to AddUDPMsg: whether the envelope and its Data parse as
\* JSON, the message type, whether the result block carries a valid
\* signature, and the transactions or the node list carried.
Datagrams ==
  [parses : {FALSE}, msgType : {1}, dataParses : {FALSE}, signed : {FALSE},
   txs : {<<>>}, nodeList : {0}, blockNum : {0}]
  \cup [parses : {TRUE}, msgType : {1}, dataParses : BOOLEAN,
        signed : BOOLEAN, txs : SeqsUpTo(Txs, MaxTxBatch), nodeList : {0},
        blockNum : {0}]
  \cup [parses : {TRUE}, msgType : {2}, dataParses : BOOLEAN,
        signed : {FALSE}, txs : {<<>>}, nodeList : {1, 2}, blockNum : {1, 2}]
  \cup [parses : {TRUE}, msgType : {3}, dataParses : {TRUE}, signed : {FALSE},
        txs : {<<>>}, nodeList : {0}, blockNum : {0}]

\* pm.verifier.DposTx(txData.Result): the installed verifier checks the
\* signature. With no verifier installed the receiver is a nil pointer: the
\* call panics if DposTx reads a field of it, and returns either way if not.
DposTx(d) ==
  IF verifier THEN {IF d.signed THEN "true" ELSE "false"}
  ELSE {"panic", "true", "false"}

\* What an AddUDPMsg call did: its error, and what it handed to the pool.
UdpResult(d, err, toTxpool) ==
  [op |-> "udp", msg |-> d, err |-> err, txpool |-> toTxpool]

UdpFrame ==
  UNCHANGED <<peerVars, stopVars, loops, daoForkBlock, chainHead, side,
              query, replied, reply, store, gossipVars, bcastVars, manifest, rmPc, verifier, usb>>

\* UDPHandler.AddVerifier (lines 804-806).
AddVerifier ==
  /\ verifier' = TRUE
  /\ out' = NoOut
  /\ UNCHANGED <<peerVars, stopVars, loops, daoForkBlock, chainHead, side,
                 query, replied, reply, store, gossipVars, bcastVars, manifest, rmPc,
                 broadcastInfoCh, usb>>


\* The same for a transaction datagram that reached pm.verifier.DposTx,
\* with what that call did.
UdpVerdict(d, r, err, toTxpool) ==
  [op |-> "udp", msg |-> d, err |-> err, txpool |-> toTxpool, dposTx |-> r]

\* A plausible slip: the verdict is logged but the datagram is not refused.
UdpTxOutcome_ignoresVerdict(d, r) ==
  IF r = "panic" THEN UdpVerdict(d, r, "panic", <<>>)
  ELSE IF d.txs = <<>> THEN UdpVerdict(d, r, Nil, <<>>)
  ELSE UdpVerdict(d, r, Nil, <<d.txs>>)

\* AddUDPMsg, lines 824-849, for the outcome r of DposTx: a false verdict
\* is ErrVerify; an empty list returns nil; otherwise the transactions go to
\* txpool.AddRemotes, whose error is only logged.
UdpTxOutcome(d, r) ==
  IF r = "panic" THEN UdpVerdict(d, r, "panic", <<>>)
  ELSE IF r = "false" THEN UdpVerdict(d, r, "ErrVerify", <<>>)
  ELSE IF d.txs = <<>> THEN UdpVerdict(d, r, Nil, <<>>)
  ELSE UdpVerdict(d, r, Nil, <<d.txs>>)

\* UDPHandler.AddUDPMsg (lines 807-865). The send at line 858 completes when
\* the channel (capacity 1) has room.
\* A plausible slip: a roster still in the slot is overwritten.
RosterSend_overwrites(d) ==
  broadcastInfoCh' = <<[NodeList |-> d.nodeList, BlockNum |-> d.blockNum]>>

\* Line 858: the send on broadcastInfoCh, a channel of capacity 1 (line 131),
\* which blocks while the slot is taken.
RosterSend(d) ==
  /\ Len(broadcastInfoCh) < 1
  /\ broadcastInfoCh' =
       Append(broadcastInfoCh,
              [NodeList |-> d.nodeList, BlockNum |-> d.blockNum])

AddUDPMsg(d) ==
  /\ UdpFrame
  /\ IF ~d.parses
     THEN out' = UdpResult(d, "ErrVerify", <<>>) /\ UNCHANGED broadcastInfoCh
     ELSE CASE d.msgType = 1 ->
                 /\ UNCHANGED broadcastInfoCh
                 /\ IF ~d.dataParses
                    THEN out' = UdpResult(d, "ErrVerify", <<>>)
                    ELSE \E r \in DposTx(d) : out' = UdpTxOutcome(d, r)
            [] d.msgType = 2 ->
                 IF ~d.dataParses
                 THEN /\ out' = UdpResult(d, "ErrVerify", <<>>)
                      /\ UNCHANGED broadcastInfoCh
                 ELSE /\ RosterSend(d)
                      /\ out' = UdpResult(d, Nil, <<>>)
            [] OTHER ->
                 /\ out' = UdpResult(d, Nil, <<>>)
                 /\ UNCHANGED broadcastInfoCh

\* The miner takes the roster off the channel.
MinerTakesRoster ==
  /\ broadcastInfoCh # <<>>
  /\ broadcastInfoCh' = Tail(broadcastInfoCh)
  /\ out' = NoOut
  /\ UdpFrame


(* ---------------------------- manifest trie --------------------------- *)
\* A ptcifestTrieEntry: the ManifestEntry fields that matter and the
\* subtrie pointer (<<>> is nil). Hash 0 is the empty string, Status 0 the
\* omitted status.
TrieEntry(hash, path, contentType, subtrie) ==
  [hash |-> hash, path |-> path, contentType |-> contentType, status |-> 0,
   subtrie |-> subtrie]

\* Characters a path is made of, as UTF-8 byte sequences, and the paths.
PathChars == {<<"a">>, <<"b">>, <<"C3", "A8">>, <<"C3", "A9">>}

RECURSIVE PathsOf(_)
PathsOf(n) ==
  IF n = 0 THEN {<<>>}
  ELSE PathsOf(n - 1) \cup {p \o ch : p \in PathsOf(n - 1), ch \in PathChars}

Paths == PathsOf(MaxPathChars)

\* The paths looked up: those of the entries and the ones a character longer.
LookupPaths == PathsOf(MaxPathChars + 1)

\* json.Marshal of a string: invalid UTF-8 is coerced, each offending byte
\* becoming U+FFFD; json.Unmarshal reads the result back as it is.
RECURSIVE JsonString(_)
JsonString(s) ==
  IF s = <<>> THEN <<>>
  ELSE IF s[1] \in {"a", "b", "FFFD"}
  THEN <<s[1]>> \o JsonString(Tail(s))
  ELSE IF s[1] = "C3" /\ Len(s) >= 2 /\ s[2] \in {"A8", "A9"}
  THEN <<s[1], s[2]>> \o JsonString(Tail(Tail(s)))
  ELSE <<"FFFD">> \o JsonString(Tail(s))

\* The common prefix taken to be the first byte alone.
Cpl_firstByte(p, q) == 1

\* The length of the common prefix (addEntry, lines 248-251).
Cpl(p, q) ==
  LET shorter == IF Len(p) < Len(q) THEN Len(p) ELSE Len(q)
  IN CHOOSE k \in 0..shorter :
       /\ \A i \in 1..k : p[i] = q[i]
       /\ k = shorter \/ p[k + 1] # q[k + 1]

CutPath(p, n) == SubSeq(p, n + 1, Len(p))

RECURSIVE addEntry(_, _, _)
RECURSIVE readEntries(_, _, _, _)

\* readManifest (lines 192-231) of the manifest stored under key: a new trie
\* to which the stored entries are added one by one. Retrieval succeeds.
readManifest(key, dpa) == readEntries(NilTrie, dpa[key], 1, dpa)

readEntries(trie, entries, i, dpa) ==
  IF i > Len(entries) THEN trie
  ELSE readEntries(addEntry(trie,
                            [TrieEntry(entries[i].hash, entries[i].path,
                                       entries[i].contentType, <<>>)
                               EXCEPT !.status = entries[i].status],
                            dpa),
                   entries, i + 1, dpa)

\* loadSubTrie (lines 361-368): the subtrie of a manifest-type entry, read
\* from the store when it is not in memory yet.
loadSubTrie(entry, dpa) ==
  IF entry.subtrie = <<>> THEN readManifest(entry.hash, dpa)
  ELSE entry.subtrie[1]


\* addEntry without line 258: the entry descended into keeps its Hash.
RECURSIVE addEntry_keepsEntryHash(_, _, _)
addEntry_keepsEntryHash(trie, entry, dpa) ==
  LET put(s, e) == [hash |-> 0, entries |-> [trie.entries EXCEPT ![s] = e]]
  IN IF entry.path = <<>> THEN put("256", <<entry>>)
     ELSE LET b == entry.path[1]
              old == trie.entries[b]
          IN IF old = <<>>
             THEN put(b, <<entry>>)
             ELSE LET oldentry == old[1]
                      cpl == Cpl(entry.path, oldentry.path)
                      cut == [entry EXCEPT !.path = CutPath(entry.path, cpl)]
                  IN IF /\ oldentry.path = entry.path
                        /\ oldentry.contentType # ManifestType
                     THEN put(b, <<entry>>)
                     ELSE IF /\ oldentry.contentType = ManifestType
                             /\ cpl = Len(oldentry.path)
                     THEN put(b, <<[oldentry EXCEPT
                                      !.subtrie =
                                        <<addEntry_keepsEntryHash(
                                            loadSubTrie(oldentry, dpa),
                                            cut, dpa)>>,
                                      !.hash = IF oldentry.subtrie = <<>>
                                               THEN 0 ELSE @]>>)
                     ELSE put(b, <<TrieEntry(
                                     0, SubSeq(entry.path, 1, cpl),
                                     ManifestType,
                                     <<addEntry_keepsEntryHash(
                                         addEntry_keepsEntryHash(NilTrie, cut,
                                                                 dpa),
                                         [oldentry EXCEPT
                                            !.path = CutPath(oldentry.path,
                                                             cpl)],
                                         dpa)>>)>>)

\* addEntry (lines 233-277).
addEntry(trie, entry, dpa) ==
  LET put(s, e) == [hash |-> 0, entries |-> [trie.entries EXCEPT ![s] = e]]
  IN IF entry.path = <<>> THEN put("256", <<entry>>)
     ELSE LET b == entry.path[1]
              old == trie.entries[b]
          IN IF old = <<>>
             THEN put(b, <<entry>>)
             ELSE LET oldentry == old[1]
                      cpl == Cpl(entry.path, oldentry.path)
                      cut == [entry EXCEPT !.path = CutPath(entry.path, cpl)]
                  IN IF /\ oldentry.path = entry.path
                        /\ oldentry.contentType # ManifestType
                     THEN put(b, <<entry>>)
                     ELSE IF /\ oldentry.contentType = ManifestType
                             /\ cpl = Len(oldentry.path)
                     THEN put(b, <<[oldentry EXCEPT
                                      !.subtrie =
                                        <<addEntry(loadSubTrie(oldentry, dpa),
                                                   cut, dpa)>>,
                                      !.hash = 0]>>)
                     ELSE put(b, <<TrieEntry(
                                     0, SubSeq(entry.path, 1, cpl),
                                     ManifestType,
                                     <<addEntry(
                                         addEntry(NilTrie, cut, dpa),
                                         [oldentry EXCEPT
                                            !.path = CutPath(oldentry.path,
                                                             cpl)],
                                         dpa)>>)>>)

\* getCountLast (lines 279-287): the entries of the trie in array order.
RECURSIVE EntriesFrom(_, _)
EntriesFrom(trie, i) ==
  IF i > Len(SlotOrder) THEN <<>>
  ELSE trie.entries[SlotOrder[i]] \o EntriesFrom(trie, i + 1)


\* deleteEntry without lines 314-321: a subtrie is kept whatever is left
\* in it.
RECURSIVE deleteEntry_keepsSubtrie(_, _, _)
deleteEntry_keepsSubtrie(trie, path, dpa) ==
  LET put(s, e) == [hash |-> 0, entries |-> [trie.entries EXCEPT ![s] = e]]
      same == [trie EXCEPT !.hash = 0]
  IN IF path = <<>> THEN put("256", <<>>)
     ELSE LET b == path[1]
              slot == trie.entries[b]
          IN IF slot = <<>> THEN same
             ELSE LET entry == slot[1]
                      epl == Len(entry.path)
                  IN IF entry.path = path THEN put(b, <<>>)
                     ELSE IF /\ entry.contentType = ManifestType
                             /\ Len(path) >= epl
                             /\ SubSeq(path, 1, epl) = entry.path
                     THEN put(b, <<[entry EXCEPT
                                      !.subtrie =
                                        <<deleteEntry_keepsSubtrie(
                                            loadSubTrie(entry, dpa),
                                            CutPath(path, epl), dpa)>>,
                                      !.hash = 0]>>)
                     ELSE same

\* deleteEntry (lines 289-323).
RECURSIVE deleteEntry(_, _, _)
deleteEntry(trie, path, dpa) ==
  LET put(s, e) == [hash |-> 0, entries |-> [trie.entries EXCEPT ![s] = e]]
      same == [trie EXCEPT !.hash = 0]
  IN IF path = <<>> THEN put("256", <<>>)
     ELSE LET b == path[1]
              slot == trie.entries[b]
          IN IF slot = <<>> THEN same
             ELSE LET entry == slot[1]
                      epl == Len(entry.path)
                  IN IF entry.path = path THEN put(b, <<>>)
                     ELSE IF /\ entry.contentType = ManifestType
                             /\ Len(path) >= epl
                             /\ SubSeq(path, 1, epl) = entry.path
                     THEN LET sub == deleteEntry(loadSubTrie(entry, dpa),
                                                 CutPath(path, epl), dpa)
                              left == EntriesFrom(sub, 1)
                          IN IF Len(left) >= 2
                             THEN put(b, <<[entry EXCEPT !.subtrie = <<sub>>,
                                                         !.hash = 0]>>)
                             ELSE IF Len(left) = 1
                             THEN put(b, <<[left[1] EXCEPT
                                              !.path = entry.path \o @]>>)
                             ELSE put(b, <<>>)
                     ELSE same

\* dpa.Store of a manifest: the store is content-addressed, so the same
\* content gets the same key; the key is the position in the store.
StoreKey(dpa, m) ==
  IF \E k \in 1..Len(dpa) : dpa[k] = m
  THEN CHOOSE k \in 1..Len(dpa) : dpa[k] = m
  ELSE Len(dpa) + 1

StoreIn(dpa, m) ==
  IF \E k \in 1..Len(dpa) : dpa[k] = m THEN dpa ELSE Append(dpa, m)

\* json.Marshal of a ManifestEntry as readManifest decodes it again.
JsonEntry(entry) ==
  [hash |-> entry.hash, path |-> JsonString(entry.path),
   contentType |-> entry.contentType, status |-> entry.status]

\* json.Marshal(list) (lines 333-350): the entries in array order.
RECURSIVE JsonEntries(_)
JsonEntries(entries) ==
  IF entries = <<>> THEN <<>>
  ELSE <<JsonEntry(entries[1])>> \o JsonEntries(Tail(entries))

\* recalcAndStore (lines 325-359): [trie, dpa] after the call. Slot i and
\* the ones after it are still to be visited.
RECURSIVE recalcAndStore(_, _)
RECURSIVE recalcSlots(_, _, _)
recalcSlots(trie, i, dpa) ==
  IF i > Len(SlotOrder)
  THEN LET m == JsonEntries(EntriesFrom(trie, 1))
       IN [trie |-> [trie EXCEPT !.hash = StoreKey(dpa, m)],
           dpa |-> StoreIn(dpa, m)]
  ELSE LET s == SlotOrder[i]
           slot == trie.entries[s]
       IN IF slot = <<>> \/ slot[1].hash # 0
          THEN recalcSlots(trie, i + 1, dpa)
          ELSE LET r == recalcAndStore(slot[1].subtrie[1], dpa)
               IN recalcSlots(
                    [trie EXCEPT !.entries[s] =
                       <<[slot[1] EXCEPT !.hash = r.trie.hash,
                                         !.subtrie = <<r.trie>>]>>],
                    i + 1, r.dpa)

recalcAndStore(trie, dpa) ==
  IF trie.hash # 0 THEN [trie |-> trie, dpa |-> dpa]
  ELSE recalcSlots(trie, 1, dpa)

\* The leaves of a trie: every entry that is not a subtrie reference, with
\* its full path; subtries are loaded as needed.
RECURSIVE Leaves(_, _, _)
Leaves(trie, prefix, dpa) ==
  UNION {LET e == trie.entries[s][1]
         IN IF e.contentType = ManifestType
            THEN Leaves(loadSubTrie(e, dpa), prefix \o e.path, dpa)
            ELSE {[path |-> prefix \o e.path, hash |-> e.hash,
                   contentType |-> e.contentType]} :
           s \in {x \in Slots : trie.entries[x] # <<>>}}


\* loadSubTrie (lines 361-368) as it leaves the entry: a subtrie that was
\* not in memory is read from the store and the entry's Hash is emptied.
Loaded(entry, dpa) ==
  IF entry.subtrie = <<>>
  THEN [entry EXCEPT !.subtrie = <<readManifest(entry.hash, dpa)>>,
                     !.hash = 0]
  ELSE entry

\* findPrefixOf (lines 419-482): the trie after the call (subtries loaded,
\* Status set), the entry returned (<<>> is nil) and pos; full is the
\* returned entry's path counted from the root the call started at.
RECURSIVE findPrefixOf(_, _, _)
findPrefixOf(trie, path, dpa) ==
  LET res(t, e, pos, full) ==
        [trie |-> t, entry |-> e, pos |-> pos, full |-> full]
      sentinel ==
        res(trie, trie.entries["256"], 0, <<>>)
  IN IF path = <<>> THEN sentinel
     ELSE LET b == path[1]
              slot == trie.entries[b]
          IN IF slot = <<>> THEN sentinel
             ELSE
       LET entry == slot[1]
           epl == Len(entry.path)
           put(e) == [trie EXCEPT !.entries[b] = <<e>>]
       IN IF Len(path) <= epl
          THEN IF SubSeq(entry.path, 1, Len(path)) = path
               THEN IF entry.contentType = ManifestType
                    THEN LET le == Loaded(entry, dpa)
                             subs == EntriesFrom(le.subtrie[1], 1)
                             hit == {k \in 1..Len(subs) : subs[k].path = <<>>}
                         IN IF hit # {}
                            THEN res(put(le),
                                     <<subs[CHOOSE k \in hit :
                                              \A j \in hit : k <= j]>>,
                                     Len(path), entry.path)
                            ELSE LET marked == [le EXCEPT !.status = 300]
                                 IN res(put(marked), <<marked>>, Len(path),
                                        entry.path)
                    ELSE res(trie, <<entry>>, Len(path), entry.path)
               ELSE res(trie, <<>>, 0, <<>>)
          ELSE IF SubSeq(path, 1, epl) = entry.path
               THEN IF entry.contentType = ManifestType
                    THEN LET le == Loaded(entry, dpa)
                             r == findPrefixOf(le.subtrie[1],
                                               CutPath(path, epl), dpa)
                             after == [le EXCEPT !.subtrie = <<r.trie>>]
                         IN IF r.entry # <<>>
                            THEN res(put(after), r.entry, r.pos + epl,
                                     entry.path \o r.full)
                            ELSE res(put(after), <<after>>, 0, entry.path)
                    ELSE res(trie, <<>>, 0, <<>>)
               ELSE res(trie, <<entry>>, 0, entry.path)

\* ManifestWalker.walk (lines 139-163) with a walkFn that records the path
\* it is handed and returns nil: the trie after the walk and the paths
\* reported. Slot i and the ones after it are still to be visited.
RECURSIVE walk(_, _, _, _)
walk(trie, i, prefix, dpa) ==
  IF i > Len(SlotOrder) THEN [trie |-> trie, paths |-> <<>>]
  ELSE LET s == SlotOrder[i]
           slot == trie.entries[s]
       IN IF slot = <<>> THEN walk(trie, i + 1, prefix, dpa)
          ELSE LET entry == [slot[1] EXCEPT !.path = prefix \o @]
               IN IF entry.contentType # ManifestType
                  THEN LET rest == walk([trie EXCEPT !.entries[s] = <<entry>>],
                                        i + 1, prefix, dpa)
                       IN [trie |-> rest.trie,
                           paths |-> <<entry.path>> \o rest.paths]
                  ELSE LET le == Loaded(entry, dpa)
                           sub == walk(le.subtrie[1], 1, entry.path, dpa)
                           rest == walk([trie EXCEPT !.entries[s] =
                                           <<[le EXCEPT
                                                !.subtrie = <<sub.trie>>]>>],
                                        i + 1, prefix, dpa)
                       IN [trie |-> rest.trie,
                           paths |-> <<entry.path>> \o sub.paths
                                       \o rest.paths]

ManifestFrame ==
  /\ UNCHANGED <<peerVars, stopVars, loops, daoForkBlock, chainHead, side,
                 query, replied, reply, store, gossipVars, bcastVars, udpVars,
                 rmPc, usb>>

\* ManifestWriter.AddEntry (lines 87-96): the content is stored and an entry
\* with its key is added.
ManifestAddEntry(path, data) ==
  /\ manifest.role = "writer"
  /\ manifest.ops < MaxTrieOps
  /\ manifest' =
       [manifest EXCEPT
          !.trie = addEntry(@, TrieEntry(data, path, "text/plain", <<>>),
                            manifest.dpa),
          !.ops = @ + 1]
  /\ out' = [op |-> "addEntry", path |-> path, hash |-> data]
  /\ ManifestFrame

\* ManifestWriter.RemoveEntry (lines 99-102).
ManifestRemoveEntry(path) ==
  /\ manifest.role = "writer"
  /\ manifest.ops < MaxTrieOps
  /\ manifest' =
       [manifest EXCEPT !.trie = deleteEntry(@, path, manifest.dpa),
                        !.ops = @ + 1]
  /\ out' = [op |-> "deleteEntry", path |-> path]
  /\ ManifestFrame

\* ManifestWriter.Store (lines 105-107).
ManifestStore ==
  /\ manifest.role = "writer"
  /\ manifest.trie.hash = 0
  /\ LET r == recalcAndStore(manifest.trie, manifest.dpa)
     IN manifest' = [manifest EXCEPT !.trie = r.trie, !.dpa = r.dpa]
  /\ out' = [op |-> "store"]
  /\ ManifestFrame

\* NewManifestWriter (lines 78-84) on the key of the stored manifest.
ManifestLoad ==
  /\ manifest.role = "writer"
  /\ manifest.trie.hash # 0
  /\ manifest' =
       [manifest EXCEPT !.trie = readManifest(manifest.trie.hash,
                                              manifest.dpa)]
  /\ out' = [op |-> "load"]
  /\ ManifestFrame


\* ManifestWalker.Walk (lines 135-137).
Walk ==
  /\ manifest.role = "walker"
  /\ manifest.reads < MaxReads
  /\ LET r == walk(manifest.trie, 1, <<>>, manifest.dpa)
     IN /\ manifest' = [manifest EXCEPT !.trie = r.trie, !.reads = @ + 1]
        /\ out' = [op |-> "walk", paths |-> r.paths]
  /\ ManifestFrame

\* RegularSlashes (lines 486-496): single slashes inside, none at the ends.
RegularSlashes(path) ==
  LET keep == {i \in 1..Len(path) :
                 path[i] # "/" \/ (i > 1 /\ path[i - 1] # "/")}
      pick[i \in 0..Len(path)] ==
        IF i = 0 THEN <<>>
        ELSE IF i \in keep THEN Append(pick[i - 1], path[i])
        ELSE pick[i - 1]
      res == pick[Len(path)]
  IN IF Len(res) > 0 /\ res[Len(res)] = "/"
     THEN SubSeq(res, 1, Len(res) - 1)
     ELSE res

\* getEntry (lines 498-504).
GetEntry(spath) ==
  /\ manifest.role = "reader"
  /\ manifest.reads < MaxReads
  /\ LET path == RegularSlashes(spath)
         r == findPrefixOf(manifest.trie, path, manifest.dpa)
     IN /\ manifest' = [manifest EXCEPT !.trie = r.trie, !.reads = @ + 1]
        /\ out' = [op |-> "getEntry", path |-> path,
                   entry |-> IF r.entry = <<>> THEN <<>>
                             ELSE <<[r.entry[1] EXCEPT !.subtrie = <<>>]>>,
                   pos |-> r.pos, full |-> r.full,
                   fullpath |-> SubSeq(path, 1, r.pos)]
  /\ ManifestFrame


(* -------------------------- USB device handle ------------------------- *)
UsbFrame ==
  UNCHANGED <<peerVars, stopVars, loops, daoForkBlock, chainHead, side,
              query, replied, reply, store, gossipVars, bcastVars, udpVars,
              rmPc, manifest>>

\* SubmitTransfer (lines 200-209): under fTransfersLock the transfer is
\* appended to the list and the semaphore released once.
SubmitTransfer(t) ==
  /\ usb.state[t] = "new"
  /\ usb' = [usb EXCEPT !.fTransfers = Append(@, t),
                        !.fTransfersSem = @ + 1,
                        !.state[t] = "queued"]
  /\ out' = [op |-> "SubmitTransfer", transfer |-> t]
  /\ UsbFrame

\* CancelTransfer (lines 211-221) of a transfer that was submitted: it is
\* marked cancelled and, under fTransfersLock, taken off the list if it is
\* still there; the completion is signalled when it was removed.
CancelTransfer(t) ==
  /\ usb.state[t] \in {"queued", "taken"}
  /\ LET removed == \E k \in 1..Len(usb.fTransfers) : usb.fTransfers[k] = t
     IN /\ usb' = [usb EXCEPT
                     !.fTransfers = SelectSeq(@, LAMBDA x : x # t),
                     !.state[t] = IF removed THEN "cancelled" ELSE @]
        /\ out' = [op |-> "CancelTransfer", transfer |-> t,
                   removed |-> removed]
  /\ UsbFrame

\* TransfersWorker, line 187: acquire_sem returns B_OK once the count is
\* positive and takes one off it.
WorkerAcquire ==
  /\ usb.worker = "acquire"
  /\ usb.fTransfersSem > 0
  /\ usb' = [usb EXCEPT !.fTransfersSem = @ - 1, !.worker = "remove"]
  /\ out' = [op |-> "acquire_sem"]
  /\ UsbFrame

\* TransfersWorker, lines 192-194: under fTransfersLock the first item of
\* the list is removed; RemoveItem returns NULL when the list is empty.
WorkerRemove ==
  /\ usb.worker = "remove"
  /\ LET first == IF usb.fTransfers = <<>> THEN NullTransfer
                  ELSE Head(usb.fTransfers)
     IN /\ usb' = [usb EXCEPT
                     !.fTransfers = IF @ = <<>> THEN @ ELSE Tail(@),
                     !.fPendingTransfer = first,
                     !.worker = "do",
                     !.state = IF first = NullTransfer THEN @
                               ELSE [@ EXCEPT ![first] = "taken"]]
        /\ out' = [op |-> "RemoveItem", transfer |-> first]
  /\ UsbFrame

\* TransfersWorker, lines 195-196: the transfer is done and its completion
\* signalled. Calling Do through a null pointer is undefined: the thread
\* may crash or go on to the next round.
WorkerDo ==
  /\ usb.worker = "do"
  /\ IF usb.fPendingTransfer = NullTransfer
     THEN \E next \in {"crashed", "acquire"} :
            /\ usb' = [usb EXCEPT !.worker = next]
            /\ out' = [op |-> "Do", transfer |-> NullTransfer]
     ELSE /\ usb' = [usb EXCEPT !.worker = "acquire",
                                !.state[usb.fPendingTransfer] = "completed",
                                !.fPendingTransfer = NullTransfer]
          /\ out' = [op |-> "Do", transfer |-> usb.fPendingTransfer]
  /\ UsbFrame

(* ---------------------------- specification --------------------------- *)
\* Steps of the node's own tasks that need no input from outside.
ProgramNext ==
  \/ \E p \in Peers : RunSendNewPeer(p)
  \/ \E p \in Peers : RunQuit(p)
  \/ \E p \in Peers : RunWgAdd(p)
  \/ \E p \in Peers : HandleRegister(p)
  \/ \E p \in Peers : HandleNotifySyncer(p)
  \/ \E p \in Peers : HandleSetup(p)
  \/ \E p \in Peers : ForkTimeout(p)
  \/ \E p \in Peers : disconnected[p] /\ ReadMsgErr(p)
  \/ StopUnsubscribeMined
  \/ StopNoMorePeers
  \/ StopCloseQuitSync
  \/ StopClosePeers
  \/ StopWait
  \/ TxBroadcastLoopExit
  \/ MinedBroadcastLoopExit

\* Peer life cycle and shutdown: every connection, with the remotes' answers
\* and messages drawn from those that decide admission and termination.
LifeStatuses ==
  {st \in RemoteStatuses :
     /\ st.td = 1 /\ st.genesis = LocalGenesis /\ st.version = 63
     /\ (st.fault = "none" \/ (st.fault = "DiscReadTimeout" /\ st.networkId = 1))}

LifeMsgs == {m \in Msgs : m.code \in {"StatusMsg", "Other"}}

Next ==
  \/ ProgramNext
  \/ \E p \in Peers : Connect(p)
  \/ \E p \in Peers : \E st \in LifeStatuses : HandleAdmit(p, st)
  \/ \E p \in Peers : \E m \in LifeMsgs : HandleMsg(p, m)
  \/ \E p \in Peers : ReadMsgErr(p)
  \/ \E p \in Peers : DropPeer(p)
  \/ StopUnsubscribeTxs

InitLife == Init /\ chainHead = 0

Spec == InitLife /\ [][Next]_vars

\* Steps that wait for nothing but the scheduler or a timeout of their own:
\* the program's steps and the handshake, which p.Handshake bounds by a
\* timeout. Every runnable goroutine is eventually scheduled.
Progress ==
  \/ ProgramNext
  \/ \E p \in Peers : \E st \in LifeStatuses : HandleAdmit(p, st)

FairSpec == InitLife /\ [][Next]_vars /\ WF_vars(Progress)

\* Message handling of the connections in MsgPeers while the node runs: every
\* remote answer and every message.
MsgPeers == {1}

NextMsg ==
  \/ \E p \in MsgPeers : Connect(p)
  \/ \E p \in MsgPeers : RunSendNewPeer(p)
  \/ \E p \in MsgPeers : RunWgAdd(p)
  \/ \E p \in MsgPeers : \E st \in RemoteStatuses : HandleAdmit(p, st)
  \/ \E p \in MsgPeers : HandleRegister(p)
  \/ \E p \in MsgPeers : HandleNotifySyncer(p)
  \/ \E p \in MsgPeers : HandleSetup(p)
  \/ \E p \in MsgPeers : ForkTimeout(p)
  \/ \E p \in MsgPeers : \E m \in Msgs : HandleMsg(p, m)
  \/ \E p \in MsgPeers : ReadMsgErr(p)
  \/ \E p \in MsgPeers : DropPeer(p)

InitMsg == Init /\ \A p \in Peers : ~trusted[p]

SpecMsg == InitMsg /\ [][NextMsg]_vars

\* Header queries: every chain of the bounds, one decoded query each.
AmountVals == 0..(MaxHeaderFetch + 1) \cup {IntMax, IntMax + 1, UintMax}
SkipVals == 0..2 \cup {IntMax, IntMax + 1} \cup (UintMax - 3)..UintMax
NumberVals == 0..(MaxQueryHead + 1) \cup {UintMax}

InitHdr ==
  /\ InitNode
  /\ daoForkBlock = NoFork
  /\ \A p \in Peers : ~trusted[p]
  /\ chainHead \in 0..MaxQueryHead
  /\ side \in [at : 0..MaxQueryHead, len : 0..MaxSide]
  /\ side.at + side.len <= chainHead
  /\ side.len = 0 => side.at = 0
  /\ store = EmptyStore
  /\ fastSync = 0
  /\ \/ query \in [hash : {0}, number : NumberVals, amount : AmountVals,
                   skip : SkipVals, reverse : BOOLEAN]
     \/ query \in [hash : {x.hash : x \in LocalHeaders} \cup {99}, number : {0},
                   amount : AmountVals, skip : SkipVals, reverse : BOOLEAN]
  /\ replied = FALSE
  /\ reply = <<>>

NextHdr == HandleGetBlockHeaders

SpecHdr == InitHdr /\ [][NextHdr]_vars

\* Data requests: every database over the hashes of the bounds, one request
\* each.
InitData ==
  /\ InitNode
  /\ daoForkBlock = NoFork
  /\ \A p \in Peers : ~trusted[p]
  /\ chainHead = 0
  /\ side = [at |-> 0, len |-> 0]
  /\ store \in [DataHashes -> StoreEntries]
  /\ fastSync = 0
  /\ query \in DataRequests
  /\ replied = FALSE
  /\ reply = <<>>

NextData == HandleGetData

SpecData == InitData /\ [][NextData]_vars


\* Gossip: one connection in its message loop receives block announcements,
\* propagated blocks and transactions while the fetcher imports blocks.
\* Fast sync is enabled only over an empty chain (lines 137-143).
InitGossip ==
  /\ InitNode
  /\ daoForkBlock = NoFork
  /\ \A p \in Peers : ~trusted[p]
  /\ chainHead \in 0..MaxHead
  /\ side = [at |-> 0, len |-> 0]
  /\ store = EmptyStore
  /\ fastSync \in {0, 1}
  /\ fastSync = 1 => chainHead = 0
  /\ query = NoQuery
  /\ replied = FALSE
  /\ reply = <<>>

GossipStatuses ==
  {st \in RemoteStatuses :
     /\ st.networkId = LocalNetworkId /\ st.genesis = LocalGenesis
     /\ st.version = 63 /\ st.fault = "none"}

NextGossip ==
  \/ \E p \in MsgPeers : Connect(p)
  \/ \E p \in MsgPeers : RunSendNewPeer(p)
  \/ \E p \in MsgPeers : RunWgAdd(p)
  \/ \E p \in MsgPeers : \E st \in GossipStatuses : HandleAdmit(p, st)
  \/ \E p \in MsgPeers : HandleRegister(p)
  \/ \E p \in MsgPeers : HandleNotifySyncer(p)
  \/ \E p \in MsgPeers : HandleSetup(p)
  \/ \E p \in MsgPeers : \E m \in GossipMsgs : HandleMsg(p, m)
  \/ \E p \in MsgPeers : ReadMsgErr(p)
  \/ Inserter

SpecGossip == InitGossip /\ [][NextGossip]_vars

\* A node some of whose connections P are registered and in their message
\* loops; the connections are trusted, so any number may be registered
\* (connections are interchangeable: the first k are taken).
InitLoops(P, accept) ==
  /\ peers \in {1..k : k \in 0..Cardinality(P)}
  /\ pc = [p \in P |-> IF p \in peers THEN "loop" ELSE "idle"]
  /\ trusted = [p \in P |-> TRUE]
  /\ peerTd = [p \in P |-> IF p \in peers THEN 1 ELSE 0]
  /\ forkDrop = [p \in P |-> "nil"]
  /\ disconnected = [p \in P |-> FALSE]
  /\ closed = FALSE
  /\ dlPeers = peers
  /\ wg = Cardinality(peers)
  /\ stopPc = "idle"
  /\ txsSub = TRUE
  /\ minedBlockSub = TRUE
  /\ noMorePeersSent = 0
  /\ quitSync = FALSE
  /\ loops = {"txBroadcastLoop", "minedBroadcastLoop", "syncer"}
  /\ daoForkBlock = NoFork
  /\ chainHead \in 0..MaxHead
  /\ side = [at |-> 0, len |-> 0]
  /\ query = NoQuery
  /\ replied = FALSE
  /\ reply = <<>>
  /\ out = NoOut
  /\ store = EmptyStore
  /\ knownBlocks = [p \in P |-> {}]
  /\ knownTxs = [p \in P |-> {}]
  /\ acceptTxs = accept
  /\ fastSync = 0
  /\ minedCh = <<>>
  /\ minedPc = <<>>
  /\ passes = <<>>
  /\ verifier = FALSE
  /\ broadcastInfoCh = <<>>
  /\ rmPc = [p \in P |-> [c \in Callers |-> "idle"]]
  /\ manifest = NewManifest
  /\ usb = NewHandle

\* Broadcast of blocks: the node mines while remotes announce and leave.
InitBcast == InitLoops(BPeers, 0)

\* The mined block that is broadcast next, if any.
NextMined ==
  IF minedPc # <<>> THEN {minedPc[1].block}
  ELSE IF minedCh # <<>> THEN {Head(minedCh)}
  ELSE {}

\* A remote announces the block the node is about to broadcast.
BcastAnnounces ==
  {[code |-> "NewBlockHashesMsg", decodes |-> TRUE,
    announces |-> <<[hash |-> b.hash, number |-> b.number]>>] : b \in NextMined}

NextBcast ==
  \/ MinerMines
  \/ MinedPropagate
  \/ MinedAnnounce
  \/ \E b \in FetchedBlocks : \E propagate \in BOOLEAN :
       FetcherBroadcast(b, propagate)
  \/ \E p \in BPeers : \E m \in BcastAnnounces : HandleMsg(p, m)
  \/ \E p \in BPeers : ReadMsgErr(p)

SpecBcast == InitBcast /\ [][NextBcast]_vars


\* Broadcast of transactions: a synchronised node relays the pool's batches
\* while remotes send transactions of their own and leave.
InitTxs == InitLoops(Peers, 1)

TxBatches == SeqsUpTo(Txs, MaxTxBatch)

NextTxs ==
  \/ \E txs \in TxBatches : TxBroadcast(txs)
  \/ \E p \in Peers : \E m \in {g \in GossipMsgs : g.code = "TxMsg"} :
       HandleMsg(p, m)
  \/ \E p \in Peers : ReadMsgErr(p)

SpecTxs == InitTxs /\ [][NextTxs]_vars


\* The UDP verifier channel of a freshly constructed node.
NextUdp ==
  \/ AddVerifier
  \/ \E d \in Datagrams : AddUDPMsg(d)
  \/ MinerTakesRoster

SpecUdp == Init /\ [][NextUdp]_vars


\* Removal: one connection reaches its message loop and is removed by the
\* calls of removePeer that handle, the fork-check timer and the drop
\* callback make, statement by statement.
NextRemove ==
  \/ \E p \in MsgPeers : Connect(p)
  \/ \E p \in MsgPeers : RunSendNewPeer(p)
  \/ \E p \in MsgPeers : RunWgAdd(p)
  \/ \E p \in MsgPeers : \E st \in GossipStatuses : HandleAdmit(p, st)
  \/ \E p \in MsgPeers : HandleRegister(p)
  \/ \E p \in MsgPeers : HandleNotifySyncer(p)
  \/ \E p \in MsgPeers : HandleSetup(p)
  \/ \E p \in MsgPeers : \E c \in Callers : RemoveCheck(p, c)
  \/ \E p \in MsgPeers : \E c \in Callers : RemoveFinish(p, c)

SpecRemove == InitMsg /\ [][NextRemove]_vars


\* One eth63 connection that receives the replies to the downloader's
\* requests and Tx messages, while the fetcher imports blocks.
NextDeliver ==
  \/ \E p \in MsgPeers : Connect(p)
  \/ \E p \in MsgPeers : RunSendNewPeer(p)
  \/ \E p \in MsgPeers : RunWgAdd(p)
  \/ \E p \in MsgPeers : \E st \in GossipStatuses : HandleAdmit(p, st)
  \/ \E p \in MsgPeers : HandleRegister(p)
  \/ \E p \in MsgPeers : HandleNotifySyncer(p)
  \/ \E p \in MsgPeers : HandleSetup(p)
  \/ \E p \in MsgPeers : \E m \in DeliveryMsgs : HandleMsg(p, m)
  \/ \E p \in MsgPeers : \E h \in HeaderBatches :
       HandleMsg(p, [code |-> "BlockHeadersMsg", headers |-> h])
  \/ \E p \in MsgPeers : \E m \in {g \in GossipMsgs : g.code = "TxMsg"} :
       HandleMsg(p, m)
  \/ \E p \in MsgPeers : ReadMsgErr(p)
  \/ Inserter

SpecDeliver == InitGossip /\ [][NextDeliver]_vars

\* The constructor: every requested mode over every chain of the bounds, then
\* the node serves one connection.
SyncModes == {"FullSync", "FastSync", "LightSync"}

\* A plausible slip: the requested mode is kept over a non-empty chain.
NewProtocolManager_keepsMode(mode, head) ==
  [fastSync |-> IF mode = "FastSync" THEN 1 ELSE 0,
   mode |-> mode,
   versions |-> {v \in {62, 63} : ~(mode = "FastSync" /\ v < 63)}]

\* NewProtocolManager, lines 136-183, with the requested mode and the number
\* of the current block: the fastSync flag, the mode handed to
\* downloader.New and the protocol versions offered.
NewProtocolManager(mode, head) ==
  LET m == IF mode = "FastSync" /\ head > 0 THEN "FullSync" ELSE mode
  IN [fastSync |-> IF m = "FastSync" THEN 1 ELSE 0,
      mode |-> m,
      versions |-> {v \in {62, 63} : ~(m = "FastSync" /\ v < 63)}]

InitNew ==
  /\ InitFields
  /\ daoForkBlock = NoFork
  /\ \A p \in Peers : ~trusted[p]
  /\ chainHead \in 0..MaxHead
  /\ side = [at |-> 0, len |-> 0]
  /\ store = EmptyStore
  /\ query = NoQuery
  /\ replied = FALSE
  /\ reply = <<>>
  /\ \E mode \in SyncModes :
       LET pm == NewProtocolManager(mode, chainHead)
       IN /\ fastSync = pm.fastSync
          /\ out = [op |-> "new", mode |-> mode, head |-> chainHead,
                    downloader |-> pm.mode, versions |-> pm.versions]

SpecNew == InitNew /\ [][NextDeliver]_vars

\* A manifest writer: entries are added and removed, the manifest is stored
\* and loaded again from its key.
EntryData == 1..NumEntryData

NextManifest ==
  \/ \E path \in Paths : \E data \in EntryData : ManifestAddEntry(path, data)
  \/ \E path \in Paths : ManifestRemoveEntry(path)
  \/ ManifestStore
  \/ ManifestLoad

InitManifest == InitMsg /\ daoForkBlock = NoFork /\ chainHead = 0

SpecManifest == InitManifest /\ [][NextManifest]_vars

\* A device handle with its clients and its worker thread.
NextUsb ==
  \/ \E t \in Transfers : SubmitTransfer(t)
  \/ \E t \in Transfers : CancelTransfer(t)
  \/ WorkerAcquire
  \/ WorkerRemove
  \/ WorkerDo

InitUsb == InitMsg /\ daoForkBlock = NoFork /\ chainHead = 0

SpecUsb == InitUsb /\ [][NextUsb]_vars

\* The tries a writer gets by adding up to n entries with the given paths.
RECURSIVE TriesBuilt(_, _, _)
TriesBuilt(paths, datas, n) ==
  IF n = 0 THEN {NilTrie}
  ELSE LET S == TriesBuilt(paths, datas, n - 1)
       IN S \cup {addEntry(t, TrieEntry(d, p, "text/plain", <<>>), <<>>) :
                    t \in S, p \in paths, d \in datas}

\* A manifest a writer built and stored, loaded from its key by
\* NewManifestWalker (lines 117-123) to be walked or by loadManifest
\* (lines 184-190) to be looked up in.
InitLookup ==
  /\ InitOthers
  /\ out = NoOut
  /\ daoForkBlock = NoFork
  /\ \A p \in Peers : ~trusted[p]
  /\ chainHead = 0
  /\ side = [at |-> 0, len |-> 0]
  /\ store = EmptyStore
  /\ fastSync = 0
  /\ query = NoQuery
  /\ replied = FALSE
  /\ reply = <<>>
  /\ usb = NewHandle
  /\ \E t \in TriesBuilt(Paths, EntryData, MaxPriorAdds) :
       \E role \in {"walker", "reader"} :
         LET r == recalcAndStore(t, <<>>)
         IN manifest = [trie |-> readManifest(r.trie.hash, r.dpa),
                        dpa |-> r.dpa, ops |-> 0, role |-> role,
                        reads |-> 0]

\* Paths of plain bytes, up to MaxPathBytes long.
RECURSIVE BytePathsOf(_)
BytePathsOf(n) ==
  IF n = 0 THEN {<<>>}
  ELSE BytePathsOf(n - 1)
         \cup {p \o <<b>> : p \in BytePathsOf(n - 1), b \in {"a", "b"}}

BytePaths == BytePathsOf(MaxPathBytes)

\* Content keys: the one the entries of a manifest point to before the
\* operation looked at, and another one.
OldData == 1
NewData == 2

\* A writer with one more entry to add or remove. Its trie was built by
\* adding up to MaxPriorAdds entries and stored, and is the one in memory
\* or the one loaded again from the stored key.
InitTrie ==
  /\ InitOthers
  /\ out = NoOut
  /\ daoForkBlock = NoFork
  /\ \A p \in Peers : ~trusted[p]
  /\ chainHead = 0
  /\ side = [at |-> 0, len |-> 0]
  /\ store = EmptyStore
  /\ fastSync = 0
  /\ query = NoQuery
  /\ replied = FALSE
  /\ reply = <<>>
  /\ usb = NewHandle
  /\ \E t \in TriesBuilt(BytePaths, {OldData}, MaxPriorAdds) :
       LET r == recalcAndStore(t, <<>>)
       IN \E m \in {r, [trie |-> readManifest(r.trie.hash, r.dpa),
                         dpa |-> r.dpa]} :
            manifest = [trie |-> m.trie, dpa |-> m.dpa,
                        ops |-> MaxTrieOps - 1, role |-> "writer",
                        reads |-> 0]

NextTrie ==
  \/ \E path \in BytePaths : \E data \in {OldData, NewData} :
       ManifestAddEntry(path, data)
  \/ \E path \in BytePaths : ManifestRemoveEntry(path)
  \/ ManifestStore

SpecTrie == InitTrie /\ [][NextTrie]_vars

NextLookup ==
  \/ Walk
  \/ \E spath \in LookupPaths : GetEntry(spath)

SpecLookup == InitLookup /\ [][NextLookup]_vars

(* ------------------------------- claims ------------------------------- *)
\* A handler task is running for connection p: handle has been entered and
\* has not returned.
HandlerRunning(p) == pc[p] \in {"handle", "register", "notify", "setup", "loop"}

\* C1: Stop works in strict order: both subscriptions are gone before the
\* single no-more-peers signal, the signal is delivered (exactly once) before
\* quitSync is closed, quitSync is closed before the peer set is, and Stop
\* returns from its wait only after the peer set is closed.
C1_StopOrder ==
  /\ noMorePeersSent <= 1
  /\ (noMorePeersSent = 1 => ~txsSub /\ ~minedBlockSub)
  /\ (quitSync => noMorePeersSent = 1)
  /\ (closed => quitSync)
  /\ (stopPc \in {"peersClosed", "returned"} <=> closed)

\* C1 witness: Stop has gone through all five steps and returned.
C1_Witness ==
  /\ stopPc = "returned"
  /\ ~txsSub /\ ~minedBlockSub
  /\ noMorePeersSent = 1
  /\ quitSync
  /\ closed

\* C2: once Stop has returned no peer handler task is running, and therefore
\* none starts after it returned either.
C2_NoHandlerAfterStop ==
  stopPc = "returned" => \A p \in Peers : ~HandlerRunning(p)

\* C3: once Stop is called, Stop eventually returns with every peer handler
\* and every long-lived loop gone.
C3_ShutdownCompletes ==
  (stopPc # "idle") ~>
     (/\ stopPc = "returned"
      /\ loops = {}
      /\ \A p \in Peers : ~HandlerRunning(p))

\* The errors p.Handshake fails with.
HandshakeErrors ==
  {"ErrGenesisBlockMismatch", "ErrNetworkIdMismatch",
   "ErrProtocolVersionMismatch", "DiscReadTimeout"}

\* C4: every peer in the peer set has completed the handshake (its td is
\* set), and a connection whose handshake fails is not in the set.
C4_RegisteredHandshaken ==
  /\ \A p \in peers : peerTd[p] # 0 /\ HandlerRunning(p)
  /\ (out.op = "return" /\ out.err \in HandshakeErrors) => out.peer \notin peers

\* C4 witness: one connection is registered after its handshake while the
\* other has just been turned away by a failed handshake.
C4_Witness ==
  /\ out.op = "return"
  /\ out.err \in HandshakeErrors
  /\ \E p \in peers : p # out.peer /\ peerTd[p] # 0

\* C5: the step that takes handle past admission rejects the connection with
\* DiscTooManyPeers, registering nothing and setting no td, exactly when the
\* peer set is at or above maxPeers and the connection is not trusted; a
\* trusted connection is never rejected for capacity.
C5_Capacity ==
  [][\A p \in Peers :
       (pc[p] = "handle" /\ pc'[p] # "handle") =>
          IF PeersLen >= maxPeers /\ ~trusted[p]
          THEN /\ out' = [op |-> "return", peer |-> p,
                          err |-> "DiscTooManyPeers", msg |-> NoMsg]
               /\ pc'[p] = "gone"
               /\ peerTd'[p] = 0
               /\ peers' = peers
          ELSE ~(out'.op = "return" /\ out'.err = "DiscTooManyPeers")]_vars

\* C5 witness: an untrusted connection has just been rejected with
\* DiscTooManyPeers while the set is full.
C5_Witness ==
  /\ out.op = "return"
  /\ out.err = "DiscTooManyPeers"
  /\ ~trusted[out.peer]
  /\ out.peer \notin peers
  /\ PeersLen >= maxPeers

\* C6: with a fork block N configured, handle enters the message loop having
\* sent the request for (N, amount 1, skip 0, forward) and armed the timer; no
\* other step sends a header request, so there is exactly one per session;
\* when the armed timer expires the peer is out of the peer set and
\* disconnected.
C6_ForkChallenge ==
  [][\A p \in Peers :
       /\ (pc[p] = "setup" /\ pc'[p] = "loop" /\ daoForkBlock # NoFork) =>
             /\ out' = [op |-> "request", peer |-> p, origin |-> daoForkBlock,
                        amount |-> 1, skip |-> 0, reverse |-> FALSE]
             /\ forkDrop[p] = "nil"
             /\ forkDrop'[p] = "armed"
       /\ (out'.op = "request" /\ out'.peer = p) =>
             pc[p] = "setup" /\ pc'[p] = "loop" /\ daoForkBlock # NoFork
       /\ (forkDrop[p] = "armed" /\ forkDrop'[p] = "fired") =>
             p \notin peers' /\ disconnected'[p]]_vars

\* C6 witness: the challenge went unanswered, the timer has fired and the
\* peer, still in its message loop, is unregistered and disconnected.
C6_Witness ==
  \E p \in Peers :
    /\ forkDrop[p] = "fired"
    /\ pc[p] = "loop"
    /\ p \notin peers
    /\ disconnected[p]

\* The step handled message m read from connection p.
FromMsg(p, m) ==
  /\ out'.op \in {"handled", "return"}
  /\ out'.peer = p
  /\ out'.msg = m

BlockHeaders(headers) == [code |-> "BlockHeadersMsg", headers |-> headers]

\* The single header h of connection p went through fork validation: a
\* failure drops the peer, a pass cancels the timer, and neither the fetcher
\* nor the downloader is called.
ForkValidated(p, h) ==
  IF VerifyDAOHeaderExtraDataErr(h)
  THEN /\ out'.op = "return"
       /\ pc'[p] = "gone"
       /\ p \notin peers'
  ELSE /\ out' = Handled(p, BlockHeaders(<<h>>), <<>>, <<>>)
       /\ forkDrop'[p] = "nil"
       /\ pc'[p] = "loop"

\* C7 as stated: every BlockHeaders reply of length 1 handled while the fork
\* timer is armed goes through fork validation and is never passed to the
\* fetcher or the downloader.
C7_AnySingleHeaderValidated ==
  [][\A p \in Peers : \A h \in Headers :
       (forkDrop[p] = "armed" /\ FromMsg(p, BlockHeaders(<<h>>))) =>
          ForkValidated(p, h)]_vars

\* C7 amended: every BlockHeaders reply of length 1 whose header has the fork
\* block's number, handled while the fork timer is armed, goes through fork
\* validation and is never passed to the fetcher or the downloader.
C7_ForkHeaderValidated ==
  [][\A p \in Peers : \A h \in Headers :
       (/\ forkDrop[p] = "armed"
        /\ h.number = daoForkBlock
        /\ FromMsg(p, BlockHeaders(<<h>>))) =>
          ForkValidated(p, h)]_vars

\* C7 witness: a single header with the fork block's number has just failed
\* fork validation and its peer is gone.
C7_Witness ==
  /\ out.op = "return"
  /\ out.err = "ErrBadProDAOExtra"
  /\ Len(out.msg.headers) = 1
  /\ out.msg.headers[1].number = daoForkBlock
  /\ out.peer \notin peers

\* C8: an empty BlockHeaders reply handled while the fork timer is armed
\* cancels the timer and keeps the peer when the peer's TD is below the local
\* TD at the fork block; it leaves the timer armed when the local chain has
\* the fork block and the peer's TD is at or above the TD there.
C8_EmptyReply ==
  [][\A p \in Peers :
       (forkDrop[p] = "armed" /\ FromMsg(p, BlockHeaders(<<>>))) =>
          /\ peerTd[p] < GetTd(daoForkBlock) =>
                /\ out' = Handled(p, BlockHeaders(<<>>), <<>>, <<>>)
                /\ forkDrop'[p] = "nil"
                /\ pc'[p] = "loop"
                /\ peers' = peers
          /\ (HasHeaderByNumber(daoForkBlock)
              /\ peerTd[p] >= GetTd(daoForkBlock)) =>
                forkDrop'[p] = "armed"]_vars

\* C8 witness: the local chain has the fork block, a peer whose TD is below
\* the TD there has answered the challenge with no header, and the timer is
\* cancelled with the peer still registered.
C8_Witness ==
  /\ daoForkBlock # NoFork
  /\ HasHeaderByNumber(daoForkBlock)
  /\ out.op = "handled"
  /\ out = Handled(out.peer, BlockHeaders(<<>>), <<>>, <<>>)
  /\ peerTd[out.peer] < GetTd(daoForkBlock)
  /\ forkDrop[out.peer] = "nil"
  /\ out.peer \in peers

Min(a, b) == IF a <= b THEN a ELSE b

\* C9: every GetBlockHeaders reply, in every traversal mode, holds at most
\* min(amount, MaxHeaderFetch) headers, each one a header of the local chain.
C9_ReplyBounded ==
  replied =>
    /\ Len(reply) <= Min(query.amount, MaxHeaderFetch)
    /\ \A i \in 1..Len(reply) : reply[i] \in LocalHeaders

\* C9 witness: a by-hash forward query asking for more than MaxHeaderFetch
\* headers is answered with exactly MaxHeaderFetch of them, in ascending order.
C9_Witness ==
  /\ replied
  /\ query.hash # 0
  /\ query.amount > MaxHeaderFetch
  /\ Len(reply) = MaxHeaderFetch
  /\ \A i, j \in 1..Len(reply) : i < j => reply[i].number < reply[j].number

\* C10: a by-number forward query (n, skip s, amount a) is answered with the
\* canonical headers at n, n+(s+1), n+2(s+1), ... in that order, at most a of
\* them, ending at the first number the chain has no header for.
C10_NumberForwardSequence ==
  (replied /\ query.hash = 0 /\ ~query.reverse) =>
    /\ Len(reply) <= query.amount
    /\ \A k \in 1..Len(reply) :
         /\ query.number + (k - 1) * (query.skip + 1) <= chainHead
         /\ reply[k] = CanonHeader(query.number + (k - 1) * (query.skip + 1))

\* C11: in number-forward mode a skip that makes the next number wrap around
\* 64 bits ends the traversal: the reply holds no header reached through a
\* wrapped number and no header twice, so its numbers ascend strictly and no
\* header but the last is followed by one when its number + skip + 1 wraps.
C11_NumberForwardOverflowEnds ==
  (replied /\ query.hash = 0 /\ ~query.reverse) =>
    /\ \A i, j \in 1..Len(reply) : i < j => reply[i].number < reply[j].number
    /\ \A k \in 1..(Len(reply) - 1) :
         reply[k].number + query.skip + 1 <= UintMax

\* The header d generations above h in the local database, NilHeader if the
\* line of parents breaks before.
RECURSIVE NthAncestor(_, _)
NthAncestor(h, d) ==
  IF d = 0 \/ h = NilHeader THEN h
  ELSE IF \E x \in LocalHeaders :
            x.hash = h.parentHash /\ x.number + 1 = h.number
  THEN NthAncestor(CHOOSE x \in LocalHeaders :
                     x.hash = h.parentHash /\ x.number + 1 = h.number, d - 1)
  ELSE NilHeader

\* C12: in hash-forward mode the reply starts at the queried hash and every
\* further header is the canonical header skip+1 numbers above its
\* predecessor and has that predecessor as its (skip+1)-th ancestor.
C12_HashForwardContinuity ==
  (replied /\ query.hash # 0 /\ ~query.reverse) =>
    /\ Len(reply) > 0 => reply[1].hash = query.hash
    /\ \A k \in 1..(Len(reply) - 1) :
         /\ reply[k].number + query.skip + 1 <= chainHead
         /\ reply[k + 1] = CanonHeader(reply[k].number + query.skip + 1)
         /\ NthAncestor(reply[k + 1], query.skip + 1) = reply[k]

\* C12 witness: a hash-forward query that skips blocks is answered with
\* several headers.
C12_Witness ==
  /\ replied
  /\ query.hash # 0 /\ ~query.reverse
  /\ query.skip > 0
  /\ Len(reply) > 1

\* The items the database yields for the first n elements of the request in
\* query, in the order of the request.
RECURSIVE ItemsOfPrefix(_)
ItemsOfPrefix(n) ==
  IF n = 0 THEN <<>>
  ELSE IF DataItem(query.kind, query.hashes[n]).size = 0
  THEN ItemsOfPrefix(n - 1)
  ELSE Append(ItemsOfPrefix(n - 1), DataItem(query.kind, query.hashes[n]))

RECURSIVE SizeOf(_)
SizeOf(items) ==
  IF items = <<>> THEN 0 ELSE items[1].size + SizeOf(Tail(items))

\* C13: a data request that decodes is answered without error, whatever
\* hashes are unknown; the reply holds, in request order, the stored items
\* of the elements consumed and one per such element, at most the kind's
\* fetch limit; an element is consumed only while the items before it are
\* fewer than the limit and smaller in total than softResponseLimit, and the
\* loop stops for no other reason short of the end of the list.
C13_DataReplyBounded ==
  (/\ replied
   /\ query.list
   /\ (query.kind = "GetBlockBodiesMsg" \/ query.version >= 63)
   /\ \A i \in 1..Len(query.hashes) : query.hashes[i] # 0) =>
     /\ out.err = Nil
     /\ Len(reply) <= MaxFetch(query.kind)
     /\ out.consumed \in 0..Len(query.hashes)
     /\ reply = ItemsOfPrefix(out.consumed)
     /\ \A i \in 1..out.consumed :
          /\ SizeOf(ItemsOfPrefix(i - 1)) < softResponseLimit
          /\ Len(ItemsOfPrefix(i - 1)) < MaxFetch(query.kind)
     /\ \/ out.consumed = Len(query.hashes)
        \/ Len(reply) = MaxFetch(query.kind)
        \/ SizeOf(reply) >= softResponseLimit

\* C13 witness: a node data request whose first hash is unknown and skipped
\* and whose second yields an item that reaches softResponseLimit, so the
\* third element is never looked at although the count limit is not reached.
C13_Witness ==
  /\ replied
  /\ query.kind = "GetNodeDataMsg"
  /\ out.err = Nil
  /\ Len(query.hashes) = 3
  /\ out.consumed = 2
  /\ Len(reply) = 1
  /\ reply[1].hash = query.hashes[2]
  /\ Len(reply) < MaxFetch(query.kind)

\* ---- C14 ----
\* C14: when handleMsg has processed a NewBlockHashes message, every announced
\* hash is in the sending peer's known blocks, and the fetcher was notified of
\* exactly the announcements whose (hash, number) the local chain does not
\* hold, in the order announced; none of the notified blocks is in the chain.
GossipHandled(code) ==
  /\ out'.op = "handled"
  /\ "txpool" \in DOMAIN out'
  /\ out'.msg.code = code

C14_AnnouncedKnownAndNotified ==
  [][GossipHandled("NewBlockHashesMsg") =>
       LET a == out'.msg.announces
           p == out'.peer
           unknown == {i \in 1..Len(a) : ~HasBlock(a[i].hash, a[i].number)}
       IN /\ \A i \in 1..Len(a) : a[i].hash \in knownBlocks'[p]
          /\ Len(out'.fetcher) = Cardinality(unknown)
          /\ \A k \in 1..Len(out'.fetcher) :
               /\ out'.fetcher[k].call = "Notify"
               /\ ~HasBlock(out'.fetcher[k].hash, out'.fetcher[k].number)
               /\ \E i \in unknown :
                    /\ out'.fetcher[k].hash = a[i].hash
                    /\ out'.fetcher[k].number = a[i].number
                    /\ Cardinality({j \in unknown : j < i}) = k - 1
          /\ out'.txpool = <<>> /\ out'.setHead = <<>>
          /\ ~out'.synchronise]_vars

\* An announcement of a block in the chain next to one that is not: only the
\* second reaches the fetcher.
C14_Witness ==
  /\ out.op = "handled"
  /\ "txpool" \in DOMAIN out
  /\ out.msg.code = "NewBlockHashesMsg"
  /\ Len(out.msg.announces) = 2
  /\ HasBlock(out.msg.announces[1].hash, out.msg.announces[1].number)
  /\ ~HasBlock(out.msg.announces[2].hash, out.msg.announces[2].number)
  /\ Len(out.fetcher) = 1
  /\ out.msg.announces[1].hash \in knownBlocks[out.peer]

\* ---- C15 ----
\* C15: when handleMsg has processed NewBlock{block, td}, p.SetHead was called
\* with (block.parentHash, td - block.difficulty) exactly when that total
\* difficulty exceeds the one recorded for the peer; a synchronise with the
\* peer was started exactly when, in addition, it exceeds the total
\* difficulty of the local head; and the recorded one did not decrease.
C15_HeadUpdate ==
  [][GossipHandled("NewBlockMsg") =>
       LET b == out'.msg.block
           p == out'.peer
           trueTD == out'.msg.td - b.difficulty
       IN /\ (out'.setHead # <<>>) <=> trueTD > peerTd[p]
          /\ out'.setHead # <<>> => out'.setHead = <<b.parentHash, trueTD>>
          /\ peerTd'[p] = IF trueTD > peerTd[p] THEN trueTD ELSE peerTd[p]
          /\ out'.synchronise <=>
               (trueTD > peerTd[p] /\ trueTD > GetTd(chainHead))
          /\ peerTd'[p] >= peerTd[p]
          /\ b.hash \in knownBlocks'[p]
          /\ out'.fetcher = <<[call |-> "Enqueue", block |-> b]>>]_vars

\* A propagated block whose true total difficulty is above the peer's record
\* but not above the local head's: the head is updated without a synchronise.
C15_Witness ==
  /\ out.op = "handled"
  /\ "txpool" \in DOMAIN out
  /\ out.msg.code = "NewBlockMsg"
  /\ out.setHead # <<>>
  /\ ~out.synchronise
  /\ peerTd[out.peer] = out.msg.td - out.msg.block.difficulty

\* A propagated block that triggers a synchronise.
C15_WitnessSync ==
  /\ out.op = "handled"
  /\ "txpool" \in DOMAIN out
  /\ out.msg.code = "NewBlockMsg"
  /\ out.synchronise

\* ---- C16 ----
\* A Tx message was read by handleMsg in this step while acceptTxs was 0.
TxReadUnsynced ==
  /\ out'.op \in {"handled", "return"}
  /\ out'.msg.code = "TxMsg"
  /\ acceptTxs = 0

\* The message was dropped silently: no error, the peer stays in its message
\* loop and registered, the pool got nothing, no transaction was marked.
DroppedSilently ==
  /\ out'.op = "handled"
  /\ out'.txpool = <<>>
  /\ out'.fetcher = <<>>
  /\ knownTxs' = knownTxs
  /\ pc' = pc
  /\ peers' = peers
  /\ disconnected' = disconnected

\* C16 as stated: while acceptTxs is 0, a Tx message of any size and content
\* is dropped silently.
C16_AnyTxDropped ==
  [][TxReadUnsynced => DroppedSilently]_vars

\* C16, amended: while acceptTxs is 0, a Tx message of any content whose size
\* does not exceed ProtocolMaxMsgSize is dropped silently.
C16_SizedTxDropped ==
  [][TxReadUnsynced /\ ~Oversize(out'.msg) => DroppedSilently]_vars

\* A batch of transactions, and one that would not decode, dropped while the
\* node is not synchronised.
C16_Witness ==
  /\ out.op = "handled"
  /\ out.msg.code = "TxMsg"
  /\ acceptTxs = 0
  /\ out.msg.txs # <<>>
  /\ knownTxs[out.peer] = {}

C16_WitnessUndecodable ==
  /\ out.op = "handled"
  /\ out.msg.code = "TxMsg"
  /\ acceptTxs = 0
  /\ ~out.msg.decodes

\* ---- C17 ----
\* minedBroadcastLoop made a BroadcastBlock call in this step.
MinedPass(propagate) ==
  /\ out'.op = "broadcast"
  /\ out'.by = "miner"
  /\ out'.propagate = propagate

\* C17: for every mined-block event, the propagate pass sends the full block
\* to exactly floor(sqrt(k)) peers, all of them among the k registered peers
\* that do not know the block; the announce pass sends the announcement to
\* exactly the registered peers lacking the block, none of which was sent the
\* block by the propagate pass.
C17_FanOut ==
  [][/\ MinedPass(TRUE) =>
          LET without == PeersWithoutBlock(out'.block.hash)
              k == Cardinality(without)
          IN /\ out'.recipients \subseteq without
             /\ \E r \in 0..k :
                  /\ r * r <= k
                  /\ (r + 1) * (r + 1) > k
                  /\ Cardinality(out'.recipients) = r
             /\ minedPc' = <<[block |-> out'.block,
                              sent |-> out'.recipients]>>
     /\ MinedPass(FALSE) =>
          /\ minedPc # <<>>
          /\ out'.block = minedPc[1].block
          /\ out'.recipients = PeersWithoutBlock(out'.block.hash)
          /\ out'.recipients \cap minedPc[1].sent = {}
          /\ \A p \in minedPc[1].sent : out'.block.hash \in knownBlocks[p]]_vars

\* Four peers, none knowing the block: the propagate pass sent it to two.
C17_Witness ==
  /\ out.op = "broadcast"
  /\ out.by = "miner"
  /\ out.propagate
  /\ minedPc # <<>>
  /\ Cardinality(peers) = 4
  /\ Cardinality(minedPc[1].sent) = 2
  /\ \A p \in peers :
       out.block.hash \in knownBlocks[p] <=> p \in minedPc[1].sent

\* The announce pass then reached the other two.
C17_WitnessAnnounce ==
  /\ out.op = "broadcast"
  /\ out.by = "miner"
  /\ ~out.propagate
  /\ Cardinality(out.recipients) = 2
  /\ Cardinality(peers) = 4
  /\ \A p \in peers : out.block.hash \in knownBlocks[p]

\* ---- C18 ----
\* C18: the BroadcastBlock calls of minedBroadcastLoop come in pairs, the
\* propagation of a block first and the announcement of the same block
\* second, so every propagation enqueue of a block precedes every
\* announcement enqueue of it; the events are handled one at a time in the
\* order the subscription delivered them (blocks in the order mined), and
\* the loop is between the two calls exactly after an odd number of calls.
C18_PropagateThenAnnounce ==
  /\ \A i \in 1..Len(passes) :
       /\ passes[i].propagate <=> i % 2 = 1
       /\ i % 2 = 0 => passes[i].hash = passes[i - 1].hash
       /\ (i % 2 = 1 /\ i >= 3) => passes[i].hash = passes[i - 2].hash + 1
  /\ (minedPc # <<>>) <=> Len(passes) % 2 = 1
  /\ minedPc # <<>> => minedPc[1].block.hash = passes[Len(passes)].hash
  /\ \A j \in 1..Len(minedCh) : \A i \in 1..Len(passes) :
       minedCh[j].hash > passes[i].hash
  /\ \A j \in 1..Len(minedCh) : \A l \in 1..Len(minedCh) :
       j < l => minedCh[j].number < minedCh[l].number

\* Two events have been handled, one after the other.
C18_Witness ==
  /\ Len(passes) = 4
  /\ passes[1].hash # passes[3].hash
  /\ out.op = "broadcast"
  /\ out.by = "miner"
  /\ ~out.propagate

\* ---- C19 ----
\* C19: a BroadcastTxs call enqueues at most one send per peer; a registered
\* peer is sent exactly the transactions of the batch that are not in its
\* known set, in batch order, and nothing if it knows them all; a peer that
\* is not registered is sent nothing.
RECURSIVE Filtered(_, _)
Filtered(txs, known) ==
  IF txs = <<>> THEN <<>>
  ELSE IF txs[1] \in known THEN Filtered(Tail(txs), known)
  ELSE <<txs[1]>> \o Filtered(Tail(txs), known)

C19_OneBatchPerPeer ==
  [][out'.op = "txs" =>
       LET sends == out'.sends
       IN /\ \A i, j \in 1..Len(sends) :
               sends[i].peer = sends[j].peer => i = j
          /\ \A i \in 1..Len(sends) :
               /\ sends[i].peer \in peers
               /\ sends[i].txs # <<>>
               /\ sends[i].txs = Filtered(out'.batch, knownTxs[sends[i].peer])
          /\ \A p \in peers :
               Filtered(out'.batch, knownTxs[p]) # <<>> =>
                 \E i \in 1..Len(sends) : sends[i].peer = p]_vars

\* A batch of two transactions of which one peer knows the first and
\* another knows both: the first is sent the second only, the other nothing.
C19_Witness ==
  /\ out.op = "txs"
  /\ Len(out.batch) = 2
  /\ out.batch[1] # out.batch[2]
  /\ Len(out.sends) = 1
  /\ out.sends[1].txs = <<out.batch[2]>>
  /\ Cardinality(peers) = 2

\* ---- C20 ----
\* C20: while no verifier is installed, a datagram handed to AddUDPMsg puts
\* nothing into the transaction pool and nothing on the roster channel.
C20_RejectedUntilVerifier ==
  [][(out'.op = "udp" /\ ~verifier) =>
       /\ out'.txpool = <<>>
       /\ broadcastInfoCh' = broadcastInfoCh]_vars

\* The roster part of C20 alone: the roster channel stays empty while no
\* verifier is installed.
C20_NoRosterUntilVerifier == ~verifier => broadcastInfoCh = <<>>

HasPrefix(p, pre) == Len(pre) <= Len(p) /\ SubSeq(p, 1, Len(pre)) = pre

\* ---- C21 ----
\* C21: a transaction datagram (type 1) whose signature block fails the
\* verifier's check makes AddUDPMsg return an error and hands nothing to the
\* transaction pool; the pool is handed transactions only by a type-1
\* datagram that parsed, whose signature block the verifier accepted and
\* whose list is not empty, and then exactly that list.
C21_OnlyVerifiedTxs ==
  [][out'.op = "udp" =>
       /\ ("dposTx" \in DOMAIN out' /\ out'.dposTx = "false") =>
            (out'.err = "ErrVerify" /\ out'.txpool = <<>>)
       /\ (verifier /\ out'.msg.msgType = 1 /\ ~out'.msg.signed) =>
            (out'.err = "ErrVerify" /\ out'.txpool = <<>>)
       /\ out'.txpool # <<>> =>
            /\ out'.msg.parses /\ out'.msg.dataParses
            /\ out'.msg.msgType = 1
            /\ "dposTx" \in DOMAIN out' /\ out'.dposTx = "true"
            /\ verifier => out'.msg.signed
            /\ out'.msg.txs # <<>>
            /\ out'.txpool = <<out'.msg.txs>>
            /\ out'.err = Nil]_vars

\* With the verifier installed, a tampered datagram carrying transactions
\* was refused.
C21_Witness ==
  /\ verifier
  /\ out.op = "udp"
  /\ out.msg.msgType = 1
  /\ out.msg.parses /\ out.msg.dataParses
  /\ ~out.msg.signed
  /\ out.msg.txs # <<>>
  /\ out.err = "ErrVerify"

\* And a verified one reached the pool.
C21_WitnessAccepted ==
  /\ verifier
  /\ out.op = "udp"
  /\ out.msg.signed
  /\ out.txpool = <<out.msg.txs>>

\* ---- C22 ----
\* C22: removePeer is idempotent. A call that finds the id not in the peer
\* set returns at once, making no call and changing nothing; a call that
\* runs its body after another call has removed the peer (both passed the
\* lookup first) leaves the peer set and the downloader registry as the
\* first removal left them; and when any call has returned, the peer is in
\* neither.
C22_RemoveIdempotent ==
  [][\A p \in MsgPeers : \A c \in Callers :
       /\ (rmPc[p][c] = "idle" /\ rmPc'[p][c] # "idle" /\ p \notin peers) =>
            /\ rmPc'[p][c] = "done"
            /\ out' = Removed(p, c, <<>>, FALSE)
            /\ UNCHANGED <<peers, dlPeers, disconnected>>
       /\ (rmPc[p][c] = "found" /\ rmPc'[p][c] = "done" /\ p \notin peers) =>
            /\ UNCHANGED <<peers, dlPeers, disconnected>>
            /\ out'.unregisterErr
       /\ (rmPc[p][c] # "done" /\ rmPc'[p][c] = "done") =>
            /\ p \notin peers'
            /\ p \notin dlPeers'
            /\ p \in peers => disconnected'[p]]_vars

\* The timer's call and the deferred call both passed the lookup; the second
\* to finish found the peer already unregistered.
C22_Witness ==
  /\ out.op = "removePeer"
  /\ out.unregisterErr
  /\ \E p \in MsgPeers :
       /\ rmPc[p]["timer"] = "done"
       /\ rmPc[p]["defer"] = "done"
       /\ p \notin peers /\ p \notin dlPeers

\* A call after the removal was complete returned at the lookup.
C22_WitnessShortCircuit ==
  /\ out.op = "removePeer"
  /\ out.calls = <<>>
  /\ \E p \in MsgPeers : \E c \in Callers :
       /\ c # out.caller
       /\ rmPc[p][c] = "done"

\* ---- C23 ----
\* C23: closing the peer set is terminal. Once Stop has closed it, it stays
\* closed and gains no member, so once empty it stays empty; a handler that
\* reaches the registration after the close returns errClosed without
\* entering the message loop and without being registered.
C23_CloseTerminal ==
  [][closed =>
       /\ closed'
       /\ peers' \subseteq peers
       /\ \A p \in Peers :
            (pc[p] = "register" /\ pc'[p] # "register") =>
              /\ pc'[p] = "gone"
              /\ out' = [op |-> "return", peer |-> p, err |-> "errClosed",
                         msg |-> NoMsg]
              /\ p \notin peers']_vars

\* A handler whose handshake completed around the close was refused.
C23_Witness ==
  /\ closed
  /\ out.op = "return"
  /\ out.err = "errClosed"
  /\ pc[out.peer] = "gone"
  /\ peers = {}

\* ---- C24 ----
\* C24: when the trie has been stored by recalcAndStore, the trie loaded
\* from the stored root hash has exactly the leaves (full path and entry
\* data) of the trie in memory.
C24_RoundTrip ==
  manifest.trie.hash # 0 =>
    Leaves(readManifest(manifest.trie.hash, manifest.dpa), <<>>,
           manifest.dpa)
      = Leaves(manifest.trie, <<>>, manifest.dpa)

\* ---- C25 ----
\* C25: a Status message read by the message loop makes handleMsg return
\* ErrExtraStatusMsg; the loop ends and the peer is out of the peer set.
C25_ExtraStatus ==
  [][\A p \in Peers : \A m \in Msgs :
       (pc[p] = "loop" /\ FromMsg(p, m) /\ m.code = "StatusMsg") =>
          /\ out'.op = "return"
          /\ out'.err = "ErrExtraStatusMsg"
          /\ pc'[p] = "gone"
          /\ p \notin peers']_vars

\* C25 witness: a registered peer was removed for a second Status message.
C25_Witness ==
  /\ out.op = "return"
  /\ out.msg.code = "StatusMsg"
  /\ out.err = "ErrExtraStatusMsg"
  /\ pc[out.peer] = "gone"
  /\ out.peer \notin peers
  /\ disconnected[out.peer]

\* ---- C26 ----
\* The error handleMsg returns for a message that is oversized, undecodable
\* or of an unknown code.
ErrOf(code) ==
  IF code = "TooLarge" THEN "ErrMsgTooLarge"
  ELSE IF code = "Undecodable" THEN "ErrDecode"
  ELSE "ErrInvalidMsgCode"

\* C26: whenever the message loop ends with an error (a read error or an
\* error of handleMsg), handle returns that error and the peer is out of the
\* peer set and the downloader, with its fork-check timer stopped; oversized,
\* undecodable and unknown messages are such errors.
C26_ErrorTerminates ==
  [][\A p \in Peers :
       /\ (pc[p] = "loop" /\ out'.op = "return" /\ out'.peer = p) =>
             /\ out'.err # Nil
             /\ pc'[p] = "gone"
             /\ p \notin peers'
             /\ p \notin dlPeers'
             /\ forkDrop'[p] = "nil"
       /\ \A m \in Msgs :
            (/\ pc[p] = "loop"
             /\ FromMsg(p, m)
             /\ m.code \in {"TooLarge", "Undecodable", "InvalidCode"}) =>
               /\ out'.op = "return"
               /\ out'.err = ErrOf(m.code)]_vars

\* C26 witness: a peer that was registered in both registries with its timer
\* armed failed the fork check and is gone from both, the timer stopped.
C26_Witness ==
  /\ out.op = "return"
  /\ out.err = "ErrBadProDAOExtra"
  /\ pc[out.peer] = "gone"
  /\ out.peer \notin peers
  /\ out.peer \notin dlPeers
  /\ forkDrop[out.peer] = "nil"
  /\ disconnected[out.peer]

\* C26 witness: the same for a read error.
C26_WitnessRead ==
  /\ out.op = "return"
  /\ out.err = "read error"
  /\ out.peer \notin peers
  /\ out.peer \notin dlPeers
  /\ disconnected[out.peer]

\* ---- C27 ----
\* C27: a Tx message the pool is given is handled without an error whatever
\* the pool answers, and so is a decoded batch of headers, bodies, node data
\* or receipts whose delivery to the downloader fails: handleMsg returns nil,
\* the loop goes on and the peer stays where it is registered.
C27_RecoverableKeepsPeer ==
  [][\A p \in Peers :
       /\ (/\ out'.op \in {"handled", "return"}
           /\ out'.peer = p
           /\ pc[p] = "loop"
           /\ out'.msg.code \in {"BlockBodiesMsg", "NodeDataMsg",
                                 "ReceiptsMsg", "TxMsg"}
           /\ ~Oversize(out'.msg)
           /\ out'.msg.decodes
           /\ out'.msg.code = "TxMsg" =>
                \A i \in 1..Len(out'.msg.txs) : out'.msg.txs[i] # 0) =>
             /\ out'.op = "handled"
             /\ pc'[p] = "loop"
             /\ peers' = peers /\ dlPeers' = dlPeers
             /\ disconnected' = disconnected
       /\ (out'.op = "return" /\ out'.peer = p /\ pc[p] = "loop") =>
             out'.err # "failed"
       /\ (out'.op = "handled" /\ out'.peer = p /\ "failed" \in DOMAIN out') =>
             /\ pc'[p] = "loop"
             /\ peers' = peers /\ dlPeers' = dlPeers]_vars

\* C27 witness: the delivery of a batch of block bodies failed and the peer
\* is still served.
C27_Witness ==
  /\ out.op = "handled"
  /\ "failed" \in DOMAIN out
  /\ out.msg.code = "BlockBodiesMsg"
  /\ pc[out.peer] = "loop"
  /\ out.peer \in peers
  /\ out.peer \in dlPeers

\* C27 witness: the pool rejected the transactions of a Tx message.
C27_WitnessTx ==
  /\ out.op = "handled"
  /\ "failed" \in DOMAIN out
  /\ out.msg.code = "TxMsg"
  /\ out.txpool # <<>>
  /\ pc[out.peer] = "loop"
  /\ out.peer \in peers

\* C27 witness: the delivery of headers failed.
C27_WitnessHeaders ==
  /\ out.op = "handled"
  /\ "failed" \in DOMAIN out
  /\ out.msg.code = "BlockHeadersMsg"
  /\ pc[out.peer] = "loop"
  /\ out.peer \in peers

\* ---- C28 ----
\* C28: a manager constructed in Fast mode over a chain whose current block
\* number is above 0 has fastSync = 0 and a downloader created in Full mode;
\* fastSync is 1 exactly when Fast mode was requested over an empty chain.
C28_FastOnlyOnEmptyChain ==
  out.op = "new" =>
    /\ (out.mode = "FastSync" /\ out.head > 0) =>
          (fastSync = 0 /\ out.downloader = "FullSync")
    /\ fastSync = 1 <=> (out.mode = "FastSync" /\ out.head = 0)
    /\ fastSync \in {0, 1}

\* C28 witness: Fast mode was requested over a non-empty chain and the
\* manager runs in Full mode.
C28_Witness ==
  /\ out.op = "new"
  /\ out.mode = "FastSync"
  /\ out.head > 0
  /\ chainHead > 0
  /\ fastSync = 0
  /\ out.downloader = "FullSync"

\* C28 witness: Fast mode over an empty chain is kept.
C28_WitnessFast ==
  /\ out.op = "new"
  /\ out.mode = "FastSync"
  /\ out.head = 0
  /\ fastSync = 1
  /\ out.downloader = "FastSync"

\* ---- C29 ----
\* Block b is the block of the local chain at its number.
InLocalChain(b) ==
  \E n \in 0..chainHead : n = b.number /\ CanonHeader(n).hash = b.hash

\* C29: an announce pass of BroadcastBlock for a block that is not in the
\* local chain at (hash, number) announces it to no peer.
C29_AnnounceOnlyLocal ==
  [][(/\ out'.op = "broadcast"
      /\ ~out'.propagate
      /\ ~InLocalChain(out'.block)) =>
        /\ out'.recipients = {}
        /\ knownBlocks' = knownBlocks]_vars

\* C29 witness: an announce pass ran for a block the chain does not hold,
\* with peers connected that do not know the block, and announced nothing.
C29_Witness ==
  /\ out.op = "broadcast"
  /\ ~out.propagate
  /\ ~InLocalChain(out.block)
  /\ out.recipients = {}
  /\ PeersWithoutBlock(out.block.hash) # {}

\* C29 witness: an announce pass for a block of the chain reached peers.
C29_WitnessAnnounced ==
  /\ out.op = "broadcast"
  /\ ~out.propagate
  /\ InLocalChain(out.block)
  /\ out.recipients # {}

\* ---- C30 ----
\* C30: while fast sync is active the inserter callback discards the blocks:
\* InsertChain is not called and neither the chain nor acceptTxs changes.
\* Otherwise it sets acceptTxs to 1 and calls InsertChain; acceptTxs stays 1,
\* and with it set every well-formed Tx message goes to the pool.
C30_InserterGate ==
  [][/\ out'.op = "inserter" =>
          IF fastSync = 1
          THEN /\ ~out'.insertChain
               /\ acceptTxs' = acceptTxs
               /\ chainHead' = chainHead
          ELSE /\ out'.insertChain
               /\ acceptTxs' = 1
               /\ chainHead' >= chainHead
     /\ acceptTxs = 1 => acceptTxs' = 1
     /\ \A p \in Peers :
          (/\ acceptTxs = 1
           /\ out'.op \in {"handled", "return"}
           /\ out'.peer = p
           /\ pc[p] = "loop"
           /\ out'.msg.code = "TxMsg"
           /\ ~Oversize(out'.msg)
           /\ out'.msg.decodes
           /\ \A i \in 1..Len(out'.msg.txs) : out'.msg.txs[i] # 0) =>
             /\ out'.op = "handled"
             /\ out'.txpool = <<out'.msg.txs>>]_vars

\* C30 witness: in Full mode the fetcher imported a block, which grew the
\* chain and opened the node to transactions.
C30_Witness ==
  /\ out.op = "inserter"
  /\ out.insertChain
  /\ fastSync = 0
  /\ acceptTxs = 1
  /\ chainHead > 0

\* C30 witness: during fast sync the blocks were discarded and transactions
\* are still refused.
C30_WitnessDiscarded ==
  /\ out.op = "inserter"
  /\ ~out.insertChain
  /\ fastSync = 1
  /\ acceptTxs = 0

\* ---- C31 ----
\* C31: a type-2 datagram that parses puts exactly its roster (node list and
\* block number) on the roster channel, behind nothing, and AddUDPMsg returns
\* nil only then; no other datagram changes the channel; the channel holds
\* at most one roster and a roster leaves it only by being received.
C31_OneRosterPerDatagram ==
  [][/\ out'.op = "udp" =>
          IF out'.msg.parses /\ out'.msg.msgType = 2 /\ out'.msg.dataParses
          THEN /\ broadcastInfoCh = <<>>
               /\ broadcastInfoCh' = <<[NodeList |-> out'.msg.nodeList,
                                        BlockNum |-> out'.msg.blockNum]>>
               /\ out'.err = Nil
          ELSE broadcastInfoCh' = broadcastInfoCh
     /\ Len(broadcastInfoCh') <= 1
     /\ (out'.op # "udp" /\ broadcastInfoCh' # broadcastInfoCh) =>
          (broadcastInfoCh # <<>> /\ broadcastInfoCh' = Tail(broadcastInfoCh))
    ]_vars

\* C31 witness: the roster of a type-2 datagram is in the slot.
C31_Witness ==
  /\ out.op = "udp"
  /\ out.msg.msgType = 2
  /\ out.msg.dataParses
  /\ out.msg.blockNum = 2
  /\ out.err = Nil
  /\ broadcastInfoCh = <<[NodeList |-> out.msg.nodeList, BlockNum |-> 2]>>

\* C31 witness: a datagram of unknown type was accepted with the slot taken
\* and left the roster there.
C31_WitnessUnknown ==
  /\ out.op = "udp"
  /\ out.msg.msgType = 3
  /\ out.err = Nil
  /\ broadcastInfoCh # <<>>



\* ---- C32 ----
\* pre is the longest common prefix of p and q.
LongestCommonPrefix(pre, p, q) ==
  /\ HasPrefix(p, pre)
  /\ HasPrefix(q, pre)
  /\ \/ Len(p) = Len(pre)
     \/ Len(q) = Len(pre)
     \/ p[Len(pre) + 1] # q[Len(pre) + 1]

\* The slot of a trie an entry with this path belongs to.
SlotOf(path) == IF path = <<>> THEN "256" ELSE path[1]

\* The entry added by the step has a path that starts with the byte of an
\* occupied slot, differs from the path of the slot's entry and does not
\* run through a manifest-type entry there.
SplitsSlot ==
  /\ out'.op = "addEntry"
  /\ out'.path # <<>>
  /\ manifest.trie.entries[out'.path[1]] # <<>>
  /\ LET oldentry == manifest.trie.entries[out'.path[1]][1]
     IN /\ oldentry.path # out'.path
        /\ ~(/\ oldentry.contentType = ManifestType
             /\ HasPrefix(out'.path, oldentry.path))

\* C32: adding an entry whose path shares the first byte with the slot's
\* entry, is not equal to its path and does not run through it, puts into
\* the slot one manifest-type entry whose path is the longest common prefix
\* and whose subtrie holds the two entries with that prefix cut off; all
\* other slots stay as they are.
C32_SplitOnConflict ==
  [][SplitsSlot =>
       LET b == out'.path[1]
           oldentry == manifest.trie.entries[b][1]
           slot == manifest'.trie.entries[b]
       IN /\ \A s \in Slots \ {b} :
               manifest'.trie.entries[s] = manifest.trie.entries[s]
          /\ manifest'.trie.hash = 0
          /\ slot # <<>>
          /\ slot[1].contentType = ManifestType
          /\ slot[1].hash = 0
          /\ LongestCommonPrefix(slot[1].path, out'.path, oldentry.path)
          /\ slot[1].subtrie # <<>>
          /\ LET cpl == Len(slot[1].path)
                 new == CutPath(out'.path, cpl)
                 old == CutPath(oldentry.path, cpl)
                 sub == slot[1].subtrie[1]
             IN /\ SlotOf(new) # SlotOf(old)
                /\ sub.entries[SlotOf(new)]
                     = <<TrieEntry(out'.hash, new, "text/plain", <<>>)>>
                /\ sub.entries[SlotOf(old)]
                     = <<[oldentry EXCEPT !.path = old]>>
                /\ \A s \in Slots \ {SlotOf(new), SlotOf(old)} :
                     sub.entries[s] = <<>>]_vars

\* "aab" was added to a manifest that held "aaa": the root slot holds the
\* intermediate entry "aa" with the children "a" and "b".
C32_Witness ==
  /\ out.op = "addEntry"
  /\ out.path = <<"a", "a", "b">>
  /\ manifest.trie.entries["a"] # <<>>
  /\ manifest.trie.entries["a"][1].path = <<"a", "a">>
  /\ manifest.trie.entries["a"][1].contentType = ManifestType
  /\ manifest.trie.entries["a"][1].subtrie # <<>>
  /\ manifest.trie.entries["a"][1].subtrie[1].entries["a"] # <<>>
  /\ manifest.trie.entries["a"][1].subtrie[1].entries["a"][1].path = <<"a">>
  /\ manifest.trie.entries["a"][1].subtrie[1].entries["b"] # <<>>
  /\ manifest.trie.entries["a"][1].subtrie[1].entries["b"][1].hash
       = out.hash

\* ---- C33 ----
\* The entries of a trie, subtries loaded as needed.
Children(entry, dpa) == EntriesFrom(loadSubTrie(entry, dpa), 1)

\* The leaves below the entry in a slot (a trie holding only that entry).
SlotLeaves(slot, dpa) ==
  IF slot = <<>> THEN {}
  ELSE Leaves([NilTrie EXCEPT !.entries["256"] = slot], <<>>, dpa)


\* deleteEntry(path) took trie t to trie t2: where it descended into a
\* manifest-type entry, the slot holds afterwards either that entry with a
\* subtrie in memory of at least 2 entries, itself collapsed where it was
\* descended into, or the single entry that was left with the entry's path
\* prepended, or nothing when no leaf was left. What is left below the slot
\* are the leaves that were there, with their full paths and data.
RECURSIVE Collapsed(_, _, _, _)
Collapsed(t, t2, path, dpa) ==
  IF path = <<>> THEN TRUE
  ELSE IF t.entries[path[1]] = <<>> THEN TRUE
  ELSE
    LET entry == t.entries[path[1]][1]
        after == t2.entries[path[1]]
        epl == Len(entry.path)
        gone == {l \in SlotLeaves(<<entry>>, dpa) : HasPrefix(l.path, path)}
    IN (/\ entry.contentType = ManifestType
        /\ entry.path # path
        /\ HasPrefix(path, entry.path))
       =>
       /\ SlotLeaves(after, dpa) \subseteq SlotLeaves(<<entry>>, dpa)
       /\ SlotLeaves(<<entry>>, dpa) \ SlotLeaves(after, dpa) \subseteq gone
       /\ \/ /\ after = <<>>
             /\ SlotLeaves(<<entry>>, dpa) = gone
          \/ /\ after # <<>>
             /\ after[1].contentType = ManifestType
             /\ after[1].path = entry.path
             /\ after[1].subtrie # <<>>
             /\ after[1].hash = 0
             /\ Len(Children(after[1], dpa)) >= 2
             /\ Collapsed(loadSubTrie(entry, dpa), after[1].subtrie[1],
                          CutPath(path, epl), dpa)
          \/ /\ after # <<>>
             /\ HasPrefix(after[1].path, entry.path)
             /\ after[1].contentType = ManifestType
                  => /\ after[1].path # entry.path
                     /\ Len(Children(after[1], dpa)) >= 2
             /\ Cardinality(SlotLeaves(after, dpa)) = 1
                  => after[1].contentType # ManifestType

\* C33: after deleteEntry no manifest-type entry that was descended into
\* is left with a subtrie of fewer than 2 entries; a subtrie left with one
\* entry is replaced by that entry with the intermediate path prepended,
\* and a subtrie left empty is removed.
C33_DeleteCollapses ==
  [][out'.op = "deleteEntry" =>
       Collapsed(manifest.trie, manifest'.trie, out'.path, manifest.dpa)]_vars


\* A manifest with the entries "aa" and "ab" was stored and "ab" deleted:
\* the root holds the entry "aa" itself again.
C33_Witness ==
  /\ out.op = "deleteEntry"
  /\ out.path = <<"a", "b">>
  /\ Len(manifest.dpa) = 2
  /\ Len(EntriesFrom(manifest.trie, 1)) = 1
  /\ manifest.trie.entries["a"] # <<>>
  /\ manifest.trie.entries["a"][1].path = <<"a", "a">>
  /\ manifest.trie.entries["a"][1].contentType = "text/plain"
  /\ manifest.trie.entries["a"][1].hash = OldData


\* ---- C34 ----
\* Every cached hash in the trie is good: a trie with a hash has the
\* content stored under it, and an entry with a Hash whose subtrie is in
\* memory has a subtrie with that hash.
RECURSIVE HashesValid(_, _)
HashesValid(trie, dpa) ==
  /\ trie.hash # 0 =>
       /\ trie.hash \in 1..Len(dpa)
       /\ dpa[trie.hash] = JsonEntries(EntriesFrom(trie, 1))
  /\ \A s \in Slots :
       (trie.entries[s] # <<>> /\ trie.entries[s][1].subtrie # <<>>) =>
          /\ trie.entries[s][1].hash # 0 =>
               trie.entries[s][1].subtrie[1].hash = trie.entries[s][1].hash
          /\ HashesValid(trie.entries[s][1].subtrie[1], dpa)

\* C34: in every state a trie whose cached hash is set has exactly the
\* content stored under that hash, at the root and in every subtrie in
\* memory; so a modification has cleared the hashes on the way from the
\* root to the modified entry.
C34_CachedHashValid == HashesValid(manifest.trie, manifest.dpa)

\* An entry was added below the intermediate entry "a" of a stored
\* manifest whose subtries were in memory: the root's hash and the
\* intermediate entry's Hash are cleared.
C34_Witness ==
  /\ out.op = "addEntry"
  /\ Len(out.path) = 2
  /\ out.path[1] = "a"
  /\ Len(manifest.dpa) >= 2
  /\ manifest.trie.hash = 0
  /\ manifest.trie.entries["a"] # <<>>
  /\ manifest.trie.entries["a"][1].path = <<"a">>
  /\ manifest.trie.entries["a"][1].contentType = ManifestType
  /\ manifest.trie.entries["a"][1].hash = 0
  /\ manifest.trie.entries["a"][1].subtrie # <<>>
  /\ manifest.trie.entries["a"][1].subtrie[1].hash = 0
  /\ Len(EntriesFrom(manifest.trie.entries["a"][1].subtrie[1], 1)) = 3

\* An entry was added next to the intermediate entry "a" of a stored
\* manifest: the root's hash is cleared, the subtrie keeps its hash.
C34_WitnessKept ==
  /\ out.op = "addEntry"
  /\ out.path = <<"b">>
  /\ manifest.trie.hash = 0
  /\ manifest.trie.entries["a"] # <<>>
  /\ manifest.trie.entries["a"][1].contentType = ManifestType
  /\ manifest.trie.entries["a"][1].hash # 0
  /\ manifest.trie.entries["a"][1].subtrie # <<>>
  /\ manifest.trie.entries["a"][1].subtrie[1].hash
       = manifest.trie.entries["a"][1].hash


\* ---- C36 ----
\* C36: the peers in the peer set that were admitted without being trusted
\* are never more than maxPeers.
C36_UntrustedWithinCapacity ==
  Cardinality({p \in peers : ~trusted[p]}) <= maxPeers

\* ---- C35 ----
\* One path is a prefix of the other.
PathsMatch(p, q) ==
  \/ Len(p) <= Len(q) /\ SubSeq(q, 1, Len(p)) = p
  \/ Len(q) <= Len(p) /\ SubSeq(p, 1, Len(q)) = q

\* C35: whenever findPrefixOf(path) returns an entry with position pos, the
\* entry's path from the root matches path (one is a prefix of the other),
\* agrees with path on the first pos characters, and pos is the number of
\* characters of path the matched entries consumed.
C35_PrefixFound ==
  (out.op = "getEntry" /\ out.entry # <<>>) =>
     /\ PathsMatch(out.full, out.path)
     /\ out.pos <= Len(out.path)
     /\ out.pos <= Len(out.full)
     /\ SubSeq(out.full, 1, out.pos) = SubSeq(out.path, 1, out.pos)
     /\ out.pos = Min(Len(out.full), Len(out.path))

\* ---- C39 ----
\* C39: a Walk leaves the leaves of the walker's trie (full path and entry
\* data) as they were, and a Walk that follows a Walk reports the same
\* sequence of paths.
C39_WalkReadOnly ==
  [][out'.op = "walk" =>
       /\ Leaves(manifest'.trie, <<>>, manifest'.dpa)
            = Leaves(manifest.trie, <<>>, manifest.dpa)
       /\ out.op = "walk" => out'.paths = out.paths]_vars


\* ---- C37 ----
\* C37: no reply to GetBlockHeaders holds a header twice, whatever the skip
\* and the mode: the numbers ascend strictly in the forward modes and
\* descend strictly in the reverse modes.
C37_NoHeaderTwice ==
  replied =>
    \A i, j \in 1..Len(reply) :
      i < j =>
        /\ reply[i] # reply[j]
        /\ ~query.reverse => reply[i].number < reply[j].number
        /\ query.reverse => reply[i].number > reply[j].number

\* ---- C38 ----
\* C38: deleteEntry(path) takes away the leaf whose full path is path and
\* no other: every other leaf stays with its full path and data, and no
\* leaf appears.
C38_DeleteOneLeaf ==
  [][out'.op = "deleteEntry" =>
       Leaves(manifest'.trie, <<>>, manifest'.dpa)
         = {l \in Leaves(manifest.trie, <<>>, manifest.dpa) :
              l.path # out'.path}]_vars

\* ---- C40 ----
\* C40: the semaphore releases not yet used up (the semaphore's count, and
\* one more while the worker has acquired and not yet removed) are never
\* more than the transfers in the list, and the worker never takes a null
\* transfer off the list.
C40_WorkerFindsTransfer ==
  /\ usb.fTransfersSem + (IF usb.worker = "remove" THEN 1 ELSE 0)
       <= Len(usb.fTransfers)
  /\ usb.worker = "do" => usb.fPendingTransfer # NullTransfer

====
